---- MODULE Spec2Model ----
(***************************************************************************)
(* Dialogue state machine, cart engine and validators of the ValetKleen    *)
(* chatbot.  The repository ships several alternative implementations of   *)
(* the same engine; the variable `variant` says which one is running:      *)
(*   "v2"     src/valetkleen_chatbot_v2.py      (ValetKleenChatbot)        *)
(*   "single" src/valetkleen_chatbot_single.py  (ValetKleenChatbot)        *)
(*   "render" src/valetkleen_chatbot_render.py  (ValetKleenChatbotRender)  *)
(*   "db"     src/valetkleen_chatbot/services   (CartService on the ORM)   *)
(*   "orders" src/valetkleen_chatbot/services   (cart, session, orders)    *)
(*   "sessions" src/valetkleen_chatbot/services (two request threads and *)
(*            the session cleanup on one database)                        *)
(* Money is kept in cents.  Text is kept as TLA+ strings and every test    *)
(* the code makes on text (substring, regular expression, strip, lower,    *)
(* digit runs) is computed character by character.                         *)
(***************************************************************************)
EXTENDS Integers, Sequences, FiniteSets, TLC

None == "<None>"

-----------------------------------------------------------------------------
(* Characters and the string primitives of Python the code relies on.      *)

Digits == {"0", "1", "2", "3", "4", "5", "6", "7", "8", "9"}
LowerLetters == {"a", "b", "c", "d", "e", "f", "g", "h", "i", "j", "k", "l", "m",
                 "n", "o", "p", "q", "r", "s", "t", "u", "v", "w", "x", "y", "z"}
UpperLetters == {"A", "B", "C", "D", "E", "F", "G", "H", "I", "J", "K", "L", "M",
                 "N", "O", "P", "Q", "R", "S", "T", "U", "V", "W", "X", "Y", "Z"}
Letters == LowerLetters \cup UpperLetters
Whitespace == {" ", "\t", "\n"}

UpperSeq == "ABCDEFGHIJKLMNOPQRSTUVWXYZ"
LowerSeq == "abcdefghijklmnopqrstuvwxyz"

CharAt(s, i) == SubSeq(s, i, i)

LowerChar(c) ==
    IF c \in UpperLetters
    THEN CharAt(LowerSeq, CHOOSE i \in 1..26 : CharAt(UpperSeq, i) = c)
    ELSE c

RECURSIVE Lower(_)
Lower(s) == IF Len(s) = 0 THEN "" ELSE LowerChar(CharAt(s, 1)) \o Lower(Tail(s))

Contains(s, k) ==
    \E i \in 1..(Len(s) - Len(k) + 1) : SubSeq(s, i, i + Len(k) - 1) = k

ContainsAny(s, ks) == \E k \in ks : Contains(s, k)

AllIn(s, cs) == \A i \in 1..Len(s) : CharAt(s, i) \in cs

StartsWith(s, k) == Len(s) >= Len(k) /\ SubSeq(s, 1, Len(k)) = k
EndsWith(s, k) == Len(s) >= Len(k) /\ SubSeq(s, Len(s) - Len(k) + 1, Len(s)) = k

RECURSIVE Count(_, _)
Count(s, c) ==
    IF Len(s) = 0 THEN 0
    ELSE (IF CharAt(s, 1) = c THEN 1 ELSE 0) + Count(Tail(s), c)

RECURSIVE RemoveChars(_, _)
RemoveChars(s, cs) ==
    IF Len(s) = 0 THEN ""
    ELSE (IF CharAt(s, 1) \in cs THEN "" ELSE CharAt(s, 1)) \o RemoveChars(Tail(s), cs)

RECURSIVE LStrip(_)
LStrip(s) == IF Len(s) > 0 /\ CharAt(s, 1) \in Whitespace THEN LStrip(Tail(s)) ELSE s

RECURSIVE RStrip(_)
RStrip(s) ==
    IF Len(s) > 0 /\ CharAt(s, Len(s)) \in Whitespace
    THEN RStrip(SubSeq(s, 1, Len(s) - 1))
    ELSE s

Strip(s) == RStrip(LStrip(s))

(* str.split(): the maximal runs of non-whitespace characters, in order.   *)
RECURSIVE SplitFrom(_, _)
SplitFrom(s, word) ==
    IF Len(s) = 0 THEN (IF word = "" THEN <<>> ELSE <<word>>)
    ELSE IF CharAt(s, 1) \in Whitespace
         THEN (IF word = "" THEN <<>> ELSE <<word>>) \o SplitFrom(Tail(s), "")
         ELSE SplitFrom(Tail(s), word \o CharAt(s, 1))

Split(s) == SplitFrom(s, "")

RECURSIVE JoinWith(_, _)
JoinWith(ws, sep) ==
    IF Len(ws) = 0 THEN ""
    ELSE IF Len(ws) = 1 THEN ws[1]
    ELSE ws[1] \o sep \o JoinWith(Tail(ws), sep)

DigitValue(c) == CHOOSE n \in 0..9 : CharAt("0123456789", n + 1) = c

RECURSIVE ToInt(_, _)
ToInt(s, acc) ==
    IF Len(s) = 0 THEN acc ELSE ToInt(Tail(s), 10 * acc + DigitValue(CharAt(s, 1)))

(* re.findall(r'\d+', s), each run converted with int().                   *)
RECURSIVE NumbersFrom(_, _)
NumbersFrom(s, run) ==
    IF Len(s) = 0 THEN (IF run = "" THEN <<>> ELSE <<ToInt(run, 0)>>)
    ELSE IF CharAt(s, 1) \in Digits
         THEN NumbersFrom(Tail(s), run \o CharAt(s, 1))
         ELSE (IF run = "" THEN <<>> ELSE <<ToInt(run, 0)>>) \o NumbersFrom(Tail(s), "")

FindNumbers(s) == NumbersFrom(s, "")

(* re.sub(r'<[^>]*>', '', s): every '<' that is closed by a later '>' is   *)
(* removed together with the text up to the first such '>'.                *)
RECURSIVE StripTags(_)
StripTags(s) ==
    IF Len(s) = 0 THEN ""
    ELSE IF CharAt(s, 1) = "<" /\ Contains(Tail(s), ">")
         THEN LET close == CHOOSE i \in 2..Len(s) :
                             /\ CharAt(s, i) = ">"
                             /\ \A j \in 2..(i - 1) : CharAt(s, j) # ">"
              IN StripTags(SubSeq(s, close + 1, Len(s)))
         ELSE CharAt(s, 1) \o StripTags(Tail(s))

MaxInputLength == 500

(* sanitize_input of the single-file and render variants.                  *)
sanitize_input(text) ==
    IF text = "" THEN ""
    ELSE LET untagged == StripTags(text)
             cut == SubSeq(untagged, 1, IF Len(untagged) < MaxInputLength
                                        THEN Len(untagged) ELSE MaxInputLength)
         IN Strip(JoinWith(Split(cut), " "))

-----------------------------------------------------------------------------
(* Validators.                                                             *)

EmailLocalChars == Letters \cup Digits \cup {".", "_", "%", "+", "-"}
EmailDomainChars == Letters \cup Digits \cup {".", "-"}

(* re.match(r'^[a-zA-Z0-9._%+-]+@[a-zA-Z0-9.-]+\.[a-zA-Z]{2,}$', email):   *)
(* some '@' at position a and some '.' at position d split the text into   *)
(* a non-empty local part, a non-empty domain and a top-level name of two  *)
(* or more letters.                                                        *)
MatchesEmailPattern(email) ==
    \E a \in 2..Len(email) :
        /\ CharAt(email, a) = "@"
        /\ AllIn(SubSeq(email, 1, a - 1), EmailLocalChars)
        /\ \E d \in (a + 2)..(Len(email) - 2) :
              /\ CharAt(email, d) = "."
              /\ AllIn(SubSeq(email, a + 1, d - 1), EmailDomainChars)
              /\ AllIn(SubSeq(email, d + 1, Len(email)), Letters)

MaxEmailLocal == 64
MaxEmailDomain == 255

AfterAt(email) ==
    LET a == CHOOSE i \in 1..Len(email) : CharAt(email, i) = "@"
    IN [local |-> SubSeq(email, 1, a - 1), domain |-> SubSeq(email, a + 1, Len(email))]

(* utils/validators.py validate_email: <<is_valid, error_message>>.        *)
validate_email(email) ==
    IF email = "" THEN <<FALSE, "Email is required">>
    ELSE IF ~MatchesEmailPattern(email) THEN <<FALSE, "Please enter a valid email address">>
    ELSE IF Count(email, "@") # 1 THEN <<FALSE, "Email must contain exactly one @ symbol">>
    ELSE IF Len(AfterAt(email).local) > MaxEmailLocal THEN <<FALSE, "Email username is too long">>
    ELSE IF Len(AfterAt(email).domain) > MaxEmailDomain THEN <<FALSE, "Email domain is too long">>
    ELSE IF StartsWith(AfterAt(email).domain, ".") \/ EndsWith(AfterAt(email).domain, ".")
         THEN <<FALSE, "Email domain cannot start or end with a dot">>
    ELSE IF Contains(email, "..") THEN <<FALSE, "Email cannot contain consecutive dots">>
    ELSE <<TRUE, "">>

(* valetkleen_chatbot_render.py validate_email.                            *)
render_validate_email(email) ==
    IF email = "" THEN <<FALSE, "Email is required">>
    ELSE IF ~MatchesEmailPattern(email) THEN <<FALSE, "Please enter a valid email address">>
    ELSE IF Count(email, "@") # 1 THEN <<FALSE, "Email must contain exactly one @ symbol">>
    ELSE IF Len(AfterAt(email).local) > MaxEmailLocal THEN <<FALSE, "Email username is too long">>
    ELSE IF Len(AfterAt(email).domain) > MaxEmailDomain THEN <<FALSE, "Email domain is too long">>
    ELSE <<TRUE, "">>

(* valetkleen_chatbot_single.py validate_email.                            *)
single_validate_email(email) ==
    IF email = "" THEN <<FALSE, "Email is required">>
    ELSE IF ~MatchesEmailPattern(email) THEN <<FALSE, "Please enter a valid email address">>
    ELSE <<TRUE, "">>

PhoneFormatting == Whitespace \cup {"-", "(", ")", "."}
MinPhoneLength == 10
MaxPhoneLength == 15
UsPhoneDigits == 10

(* r'^(\+1)?[2-9]\d{9}$'                                                   *)
MatchesUsPattern(cleaned) ==
    LET national == IF StartsWith(cleaned, "+1") THEN SubSeq(cleaned, 3, Len(cleaned))
                    ELSE cleaned
    IN /\ Len(national) = UsPhoneDigits
       /\ CharAt(national, 1) \in (Digits \ {"0", "1"})
       /\ AllIn(national, Digits)

(* r'^\+\d{10,15}$'                                                        *)
MatchesIntlPattern(cleaned) ==
    /\ StartsWith(cleaned, "+")
    /\ Len(cleaned) - 1 >= MinPhoneLength
    /\ Len(cleaned) - 1 <= MaxPhoneLength
    /\ AllIn(Tail(cleaned), Digits)

(* utils/validators.py validate_phone.                                     *)
validate_phone(phone) ==
    LET cleaned == RemoveChars(phone, PhoneFormatting) IN
    IF phone = "" THEN <<FALSE, "Phone number is required">>
    ELSE IF MatchesUsPattern(cleaned) THEN <<TRUE, "">>
    ELSE IF MatchesIntlPattern(cleaned) THEN <<TRUE, "">>
    ELSE IF Len(cleaned) < MinPhoneLength THEN <<FALSE, "Phone number is too short. Please include area code.">>
    ELSE IF Len(cleaned) > MaxPhoneLength THEN <<FALSE, "Phone number is too long.">>
    ELSE IF ~AllIn(RemoveChars(cleaned, {"+"}), Digits) \/ RemoveChars(cleaned, {"+"}) = ""
         THEN <<FALSE, "Phone number can only contain digits and formatting characters.">>
    ELSE <<FALSE, "Please enter a valid phone number (e.g., 555-123-4567 or +1-555-123-4567)">>

(* valetkleen_chatbot_render.py validate_phone.                            *)
render_validate_phone(phone) ==
    LET cleaned == RemoveChars(phone, PhoneFormatting) IN
    IF phone = "" THEN <<FALSE, "Phone number is required">>
    ELSE IF MatchesUsPattern(cleaned) \/ MatchesIntlPattern(cleaned) THEN <<TRUE, "">>
    ELSE IF Len(cleaned) < MinPhoneLength THEN <<FALSE, "Phone number is too short. Please include area code.">>
    ELSE IF Len(cleaned) > MaxPhoneLength THEN <<FALSE, "Phone number is too long.">>
    ELSE <<FALSE, "Please enter a valid phone number (e.g., 555-123-4567)">>

(* valetkleen_chatbot_single.py validate_phone: the US pattern only.       *)
single_validate_phone(phone) ==
    LET cleaned == RemoveChars(phone, PhoneFormatting) IN
    IF phone = "" THEN <<FALSE, "Phone number is required">>
    ELSE IF MatchesUsPattern(cleaned) THEN <<TRUE, "">>
    ELSE IF Len(cleaned) < MinPhoneLength THEN <<FALSE, "Phone number is too short. Please include area code.">>
    ELSE <<FALSE, "Please enter a valid phone number (e.g., 555-123-4567)">>

MinAddressLength == 10
MinAddressWords == 3

AddressKeywords ==
    {"street", "st", "avenue", "ave", "road", "rd", "drive", "dr", "lane", "ln",
     "boulevard", "blvd", "court", "ct", "place", "pl", "way", "circle", "cir",
     "plaza", "square", "parkway", "pkwy", "apartment", "apt", "suite", "ste",
     "unit", "#"}

DangerousPatterns == {"<script", "javascript:", "onclick", "drop table", "delete from", "--"}

HasDigit(s) == \E i \in 1..Len(s) : CharAt(s, i) \in Digits

(* utils/validators.py validate_address.                                   *)
validate_address(address) ==
    IF address = "" THEN <<FALSE, "Address is required">>
    ELSE IF Len(Strip(address)) < MinAddressLength THEN <<FALSE, "Please enter a complete address">>
    ELSE IF ~HasDigit(address) THEN <<FALSE, "Please include a street number in your address">>
    ELSE IF ~ContainsAny(Lower(address), AddressKeywords) /\ Len(Split(address)) < MinAddressWords
         THEN <<FALSE, "Please enter a complete street address">>
    ELSE IF ContainsAny(Lower(address), DangerousPatterns)
         THEN <<FALSE, "Invalid characters detected in address">>
    ELSE <<TRUE, "">>

(* valetkleen_chatbot_render.py validate_address.                          *)
render_validate_address(address) ==
    IF address = "" THEN <<FALSE, "Address is required">>
    ELSE IF Len(Strip(address)) < MinAddressLength THEN <<FALSE, "Please enter a complete address">>
    ELSE IF ~HasDigit(address) THEN <<FALSE, "Please include a street number in your address">>
    ELSE <<TRUE, "">>

(* valetkleen_chatbot_single.py validate_address.                          *)
single_validate_address(address) ==
    IF address = "" THEN <<FALSE, "Address is required">>
    ELSE IF Len(Strip(address)) < MinAddressLength THEN <<FALSE, "Please enter a complete address">>
    ELSE <<TRUE, "">>

\* ---------------------------------------------------------------------------
\* Service catalogs.  Each chatbot file carries its own catalog; the model keeps
\* a sub-catalog of each, in the dictionary order of the source.  Prices are in
\* cents (every catalog price is a whole number of cents and a binary-exact
\* float, so price * quantity is exact in the source as well).
\* ---------------------------------------------------------------------------
CatalogItem(name, price, options) == [name |-> name, price |-> price, options |-> options]

StarchOptions == <<"No Starch", "Light Starch", "Medium Starch", "Heavy Starch", "Hanger", "Fold">>

v2_load_service_catalog ==
  [dry_cleaning |->
     [keys  |-> <<"office_shirt", "pants", "dress_standard", "agbada", "wedding_dress">>,
      items |-> [office_shirt   |-> CatalogItem("Office Shirt (Dry-Clean)", 550, <<>>),
                 pants          |-> CatalogItem("Pants", 750, <<"Crease", "No crease">>),
                 dress_standard |-> CatalogItem("Standard Dress", 1200, <<>>),
                 agbada         |-> CatalogItem("Men's Agbada (3 PC)", 2000, StarchOptions),
                 wedding_dress  |-> CatalogItem("Wedding Dress", 18000, <<"Boxed", "No Box">>)]],
   laundry |->
     [keys  |-> <<"bag_small">>,
      items |-> [bag_small |-> CatalogItem("Small Bag (12 lb capacity)", 2200, <<>>)]]]

single_load_service_catalog ==
  [dry_cleaning |->
     [keys  |-> <<"office_shirt", "pants", "dress_standard", "agbada", "wedding_dress">>,
      items |-> [office_shirt   |-> CatalogItem("Office Shirt (Dry-Clean)", 550, <<>>),
                 pants          |-> CatalogItem("Pants", 750, <<"Crease", "No crease">>),
                 dress_standard |-> CatalogItem("Standard Dress", 1200, <<>>),
                 agbada         |-> CatalogItem("Men's Agbada (3 PC)", 2000, <<"Starch", "Hang", "Fold">>),
                 wedding_dress  |-> CatalogItem("Wedding Dress", 18000, <<"Box", "No box">>)]],
   laundry |->
     [keys  |-> <<"bag_small">>,
      items |-> [bag_small |-> CatalogItem("Small Bag (12 lb capacity)", 2200, <<>>)]]]

render_load_service_catalog ==
  [dry_cleaning |->
     [keys  |-> <<"office_shirt", "pants", "dress_standard", "coat_short", "wedding_dress">>,
      items |-> [office_shirt   |-> CatalogItem("Office Shirt (Dry-Clean)", 550, <<>>),
                 pants          |-> CatalogItem("Pants", 750, <<"Crease", "No crease">>),
                 dress_standard |-> CatalogItem("Standard Dress", 1200, <<>>),
                 coat_short     |-> CatalogItem("Short Coat", 1200, <<>>),
                 wedding_dress  |-> CatalogItem("Wedding Dress", 18000, <<"Box", "No box">>)]],
   laundry |->
     [keys  |-> <<"bag_small", "bag_medium">>,
      items |-> [bag_small  |-> CatalogItem("Small Bag (12 lb)", 2200, <<>>),
                 bag_medium |-> CatalogItem("Medium Bag (18 lb)", 3300, <<>>)]]]

ServiceTypes == {"dry_cleaning", "laundry"}

\* ---------------------------------------------------------------------------
\* Sessions.  A session is the dictionary kept in customer_sessions; a key the
\* source has not set holds None.  conversation_history keeps, for each entry,
\* which side wrote it, and logistics_info keeps which of its keys are set (the
\* values are free text that no branch reads).
\* ---------------------------------------------------------------------------
InfoFields == <<"name", "email", "address", "phone", "pickup_date", "pickup_time">>

EmptyInfo == [f \in {InfoFields[i] : i \in 1..Len(InfoFields)} |-> None]

EmptyPickup == [collecting |-> None, pickup_date |-> None, pickup_time |-> None]

\* no pending item: the key is absent or holds None
NoItem == [key |-> None, quantity |-> 0]

create_customer_session ==
  [cart                  |-> <<>>,
   customer_info         |-> EmptyInfo,
   conversation_history  |-> <<>>,
   current_step          |-> "welcome",
   selected_service_type |-> None,
   selected_service      |-> None,
   pending_item          |-> NoItem,
   items_needing_options |-> <<>>,
   items_ready_to_add    |-> <<>>,
   pickup_info           |-> EmptyPickup,
   logistics_info        |-> {},
   logistics_order       |-> None,
   order_id              |-> None]

\* conversation_history.append: the model keeps the last MaxHistory entries
MaxHistory == 4

Remember(history, who) ==
  LET longer == Append(history, who)
  IN IF Len(longer) > MaxHistory THEN Tail(longer) ELSE longer

\* A response dictionary: its type, the field being collected, the validation
\* error its message carries, the order number, and the handler that built it;
\* suggestions tells whether the dictionary has the key 'suggestions', and
\* session_id is the key generate_response adds.
Response(handler, type, collecting, error, order_number) ==
  [handler |-> handler, type |-> type, collecting |-> collecting,
   error |-> error, order_number |-> order_number, suggestions |-> TRUE,
   session_id |-> None]

Reply(handler, type) == Response(handler, type, None, None, None)

\* a response dictionary written without the key 'suggestions'
NoSuggestions(r) == [r EXCEPT !.suggestions = FALSE]

\* The outcome of a handler: the session and the item counter it leaves, and
\* the response (of type None when the handler returns no dictionary, and of
\* type "exception" when generate_response raises instead of returning).
Out(s, c, r) == [s |-> s, c |-> c, r |-> r]

RECURSIVE SumTotals(_)
SumTotals(cart) == IF cart = <<>> THEN 0 ELSE Head(cart).total + SumTotals(Tail(cart))

get_cart_total(s) == SumTotals(s.cart)

\* cart with the entry at position i taken out
PopAt(cart, i) == SubSeq(cart, 1, i - 1) \o SubSeq(cart, i + 1, Len(cart))

\* positions of the entries carrying item_id, lowest first
FirstWithId(cart, item_id) ==
  IF \E i \in 1..Len(cart) : cart[i].id = item_id
  THEN CHOOSE i \in 1..Len(cart) :
         /\ cart[i].id = item_id
         /\ \A j \in 1..(i - 1) : cart[j].id # item_id
  ELSE 0

\* str.split(sep) for a one-character separator
RECURSIVE SplitOnFrom(_, _, _)
SplitOnFrom(s, sep, word) ==
  IF Len(s) = 0 THEN <<word>>
  ELSE IF CharAt(s, 1) = sep THEN <<word>> \o SplitOnFrom(Tail(s), sep, "")
  ELSE SplitOnFrom(Tail(s), sep, word \o CharAt(s, 1))

SplitOn(s, sep) == SplitOnFrom(s, sep, "")

\* decimal digits of a natural number, and the same padded to two places
RECURSIVE Decimal(_)
Decimal(n) == IF n < 10 THEN CharAt("0123456789", n + 1)
              ELSE Decimal(n \div 10) \o CharAt("0123456789", (n % 10) + 1)

TwoDigits(n) == IF n < 10 THEN "0" \o Decimal(n) ELSE Decimal(n)

\* ---------------------------------------------------------------------------
\* valetkleen_chatbot_render.py
\* ---------------------------------------------------------------------------
CartItem(id, service_type, item_key, price, quantity, options) ==
  [id |-> id, service_type |-> service_type, item_key |-> item_key, price |-> price,
   quantity |-> quantity, options |-> options, total |-> price * quantity]

\* the dictionaries the services return: {'success': False, 'error': ...} and
\* {'success': True, 'cart_total': ...}
Failure(error) == [success |-> FALSE, error |-> error]

CartResult(cart_total) == [success |-> TRUE, cart_total |-> cart_total]

\* add_to_cart of a stored session: <<session, counter, result>>
render_add_to_cart(s, c, service_type, item_key, quantity, selected_options) ==
  IF service_type \notin DOMAIN render_load_service_catalog
  THEN <<s, c, Failure("Invalid service type")>>
  ELSE IF item_key \notin DOMAIN render_load_service_catalog[service_type].items
  THEN <<s, c, Failure("Item not found")>>
  ELSE LET item_info == render_load_service_catalog[service_type].items[item_key]
           cart_item == CartItem(c + 1, service_type, item_key, item_info.price,
                                 quantity, selected_options)
           added == [s EXCEPT !.cart = Append(@, cart_item)]
       IN <<added, c + 1, CartResult(get_cart_total(added))>>

\* remove_from_cart of a stored session: <<session, result>>
render_remove_from_cart(s, item_id) ==
  LET i == FirstWithId(s.cart, item_id)
      removed == [s EXCEPT !.cart = PopAt(@, i)]
  IN IF i = 0 THEN <<s, Failure("Item not found in cart")>>
     ELSE <<removed, CartResult(get_cart_total(removed))>>

\* update_cart_quantity of a stored session: <<session, result>>
render_update_cart_quantity(s, item_id, new_quantity) ==
  IF new_quantity < 1 THEN render_remove_from_cart(s, item_id)
  ELSE LET i == FirstWithId(s.cart, item_id)
           updated == [s EXCEPT !.cart[i].quantity = new_quantity,
                                !.cart[i].total = s.cart[i].price * new_quantity]
       IN IF i = 0 THEN <<s, Failure("Item not found in cart")>>
          ELSE <<updated, CartResult(get_cart_total(updated))>>

\* the dictionary clear_cart returns: {'success': True, 'message': ...}
Cleared == [success |-> TRUE, message |-> "Cart cleared successfully"]

\* clear_cart of a stored session: <<session, result>>
render_clear_cart(s) == <<[s EXCEPT !.cart = <<>>], Cleared>>

render_start_order_process(s, c) ==
  Out([s EXCEPT !.current_step = "collecting_info"], c,
      NoSuggestions(Response("start_order_process", "info_collection", "name", None, None)))

Prompt(handler, field, error) == Response(handler, "info_collection", field, error, None)

\* the prompts for the email, the address and the phone have no suggestions
Ask(handler, field, error) == NoSuggestions(Prompt(handler, field, error))

render_handle_info_collection(s, c, user_input) ==
  LET customer_info == s.customer_info
      value == Strip(user_input)
      h == "handle_info_collection"
      store(field) == [s EXCEPT !.customer_info[field] = value]
  IN IF customer_info.name = None THEN Out(store("name"), c, Ask(h, "email", None))
     ELSE IF customer_info.email = None THEN
       LET v == render_validate_email(value)
       IN IF ~v[1] THEN Out(s, c, Ask(h, "email", v[2]))
          ELSE Out(store("email"), c, Ask(h, "address", None))
     ELSE IF customer_info.address = None THEN
       LET v == render_validate_address(value)
       IN IF ~v[1] THEN Out(s, c, Ask(h, "address", v[2]))
          ELSE Out(store("address"), c, Ask(h, "phone", None))
     ELSE IF customer_info.phone = None THEN
       LET v == render_validate_phone(value)
       IN IF ~v[1] THEN Out(s, c, Ask(h, "phone", v[2]))
          ELSE Out(store("phone"), c, Prompt(h, "pickup_date", None))
     ELSE IF customer_info.pickup_date = None THEN
       Out(store("pickup_date"), c, Prompt(h, "pickup_time", None))
     ELSE IF customer_info.pickup_time = None THEN
       Out([store("pickup_time") EXCEPT !.current_step = "selecting_service"], c,
           Reply(h, "service_selection"))
     \* every field populated: the function falls off its end and returns None
     ELSE Out(s, c, Reply(h, None))

render_handle_service_selection(s, c, user_input) ==
  LET h == "handle_service_selection"
  IN IF Contains(Lower(user_input), "dry")
     THEN Out([s EXCEPT !.selected_service = "dry_cleaning", !.current_step = "selecting_items"],
              c, Reply(h, "item_selection"))
     ELSE IF Contains(Lower(user_input), "laundry")
     THEN Out([s EXCEPT !.selected_service = "laundry", !.current_step = "selecting_items"],
              c, Reply(h, "item_selection"))
     ELSE Out(s, c, Reply(h, "service_selection"))

\* the loop over the catalog items, from position i on
RECURSIVE render_find_matching_item(_, _, _, _, _, _)
render_find_matching_item(s, c, user_input, service_type, quantity, i) ==
  LET keys == render_load_service_catalog[service_type].keys
      h == "handle_item_selection"
  IN IF i > Len(keys) THEN Out(s, c, Reply(h, "item_selection"))
     ELSE LET words == SplitOn(keys[i], "_")
          IN IF \E w \in 1..Len(words) : Contains(Lower(user_input), words[w])
             THEN LET result == render_add_to_cart(s, c, service_type, keys[i], quantity, <<>>)
                  IN IF result[3].success
                     THEN Out(result[1], result[2], Reply(h, "cart_update"))
                     ELSE render_find_matching_item(s, c, user_input, service_type,
                                                    quantity, i + 1)
             ELSE render_find_matching_item(s, c, user_input, service_type, quantity, i + 1)

render_handle_item_selection(s, c, user_input) ==
  LET service_type == IF s.selected_service = None THEN "dry_cleaning" ELSE s.selected_service
      numbers == FindNumbers(user_input)
      quantity == IF numbers # <<>> THEN numbers[1] ELSE 1
  IN render_find_matching_item(s, c, user_input, service_type, quantity, 1)

render_order_number(now, cart) == "VK" \o Decimal(now) \o TwoDigits(Len(cart))

render_handle_checkout(s, c, now) ==
  IF s.cart = <<>> THEN Out(s, c, Reply("handle_checkout", "error"))
  ELSE Out([s EXCEPT !.cart = <<>>, !.current_step = "welcome"], c,
           Response("handle_checkout", "checkout_success", None, None,
                    render_order_number(now, s.cart)))

render_handle_greeting(s, c) == Out(s, c, Reply("handle_greeting", "greeting"))

render_handle_general_inquiry(s, c) == Out(s, c, Reply("handle_general_inquiry", "help"))

\* the keyword chain of generate_response, from the sanitized input on
render_dispatch(s, c, user_input, now) ==
  LET user_input_lower == Lower(user_input)
      numbers == FindNumbers(user_input)
  IN IF ContainsAny(user_input_lower, {"view cart", "show cart", "my cart"})
     THEN Out(s, c, Reply("view_cart", IF s.cart = <<>> THEN "cart_empty" ELSE "cart_view"))
     ELSE IF ContainsAny(user_input_lower, {"remove item", "delete item"})
     THEN IF numbers # <<>>
          THEN LET result == render_remove_from_cart(s, numbers[1])
               IN Out(result[1], c,
                      Reply("remove_from_cart",
                            IF result[2].success THEN "cart_update" ELSE "error"))
          ELSE Out(s, c, Reply("remove_from_cart", "error"))
     ELSE IF ContainsAny(user_input_lower, {"update item", "change quantity"})
     THEN IF Len(numbers) >= 2
          THEN LET result == render_update_cart_quantity(s, numbers[1], numbers[2])
               IN Out(result[1], c,
                      Reply("update_cart_quantity",
                            IF result[2].success THEN "cart_update" ELSE "error"))
          ELSE Out(s, c, Reply("update_cart_quantity", "error"))
     ELSE IF ContainsAny(user_input_lower, {"clear cart", "empty cart"})
     THEN Out(render_clear_cart(s)[1], c, Reply("clear_cart", "cart_cleared"))
     ELSE IF ContainsAny(user_input_lower, {"checkout", "complete order", "proceed to checkout"})
     THEN render_handle_checkout(s, c, now)
     ELSE IF s.current_step = "collecting_info"
     THEN render_handle_info_collection(s, c, user_input)
     ELSE IF s.current_step = "selecting_service"
     THEN render_handle_service_selection(s, c, user_input)
     ELSE IF s.current_step = "selecting_items"
     THEN render_handle_item_selection(s, c, user_input)
     ELSE IF ContainsAny(user_input_lower, {"place order", "make order", "start order"})
     THEN render_start_order_process(s, c)
     ELSE IF ContainsAny(user_input_lower, {"hello", "hi", "hey"})
     THEN render_handle_greeting(s, c)
     ELSE render_handle_general_inquiry(s, c)

\* generate_response: the user's entry is appended before the dispatch and the
\* bot's entry after it; response.get on a None response raises, which leaves
\* the history without the bot's entry.
render_generate_response(s, c, raw_input, now) ==
  LET user_input == sanitize_input(raw_input)
      heard == [s EXCEPT !.conversation_history = Remember(@, "user")]
      out == render_dispatch(heard, c, user_input, now)
  IN IF out.r.type = None
     THEN Out(out.s, out.c, Reply(out.r.handler, "exception"))
     ELSE Out([out.s EXCEPT !.conversation_history = Remember(@, "bot")], out.c, out.r)

\* ---------------------------------------------------------------------------
\* valetkleen_chatbot_single.py
\* ---------------------------------------------------------------------------
CheckoutKeywords ==
  {"proceed to checkout", "checkout", "complete order", "finish order", "place order now"}

ViewCartKeywords == {"view cart", "view full cart", "show cart", "my cart", "cart items"}

\* add_to_cart: <<session, counter, success>>
single_add_to_cart(s, c, service_type, item_key, quantity, selected_options) ==
  IF service_type \notin DOMAIN single_load_service_catalog THEN <<s, c, FALSE>>
  ELSE IF item_key \notin DOMAIN single_load_service_catalog[service_type].items
  THEN <<s, c, FALSE>>
  ELSE LET item_info == single_load_service_catalog[service_type].items[item_key]
           cart_item == CartItem(c + 1, service_type, item_key, item_info.price,
                                 quantity, selected_options)
       IN <<[s EXCEPT !.cart = Append(@, cart_item)], c + 1, TRUE>>

single_handle_view_cart(s, c) ==
  Out(s, c, Reply("handle_view_cart", IF s.cart = <<>> THEN "cart_empty" ELSE "cart_view"))

single_start_order_process(s, c) ==
  Out([s EXCEPT !.current_step = "collecting_info"], c,
      Response("start_order_process", "info_collection", "name", None, None))

\* handle_info_collection with the email branch left out of the chain
single_handle_info_collection_no_email(s, c, user_input) ==
  LET customer_info == s.customer_info
      value == Strip(user_input)
      h == "handle_info_collection"
      store(field) == [s EXCEPT !.customer_info[field] = value]
  IN IF customer_info.name = None THEN Out(store("name"), c, Ask(h, "address", None))
     ELSE IF customer_info.address = None THEN
       LET v == single_validate_address(value)
       IN IF ~v[1] THEN Out(s, c, Ask(h, "address", v[2]))
          ELSE Out(store("address"), c, Ask(h, "phone", None))
     ELSE IF customer_info.phone = None THEN
       LET v == single_validate_phone(value)
       IN IF ~v[1] THEN Out(s, c, Ask(h, "phone", v[2]))
          ELSE Out(store("phone"), c, Prompt(h, "pickup_date", None))
     ELSE IF customer_info.pickup_date = None THEN
       Out(store("pickup_date"), c, Prompt(h, "pickup_time", None))
     ELSE IF customer_info.pickup_time = None THEN
       Out([store("pickup_time") EXCEPT !.current_step = "selecting_service"], c,
           Reply(h, "service_selection"))
     ELSE Out(s, c, Reply(h, None))

single_handle_info_collection(s, c, user_input) ==
  LET customer_info == s.customer_info
      value == Strip(user_input)
      h == "handle_info_collection"
      store(field) == [s EXCEPT !.customer_info[field] = value]
  IN IF customer_info.name = None THEN Out(store("name"), c, Ask(h, "email", None))
     ELSE IF customer_info.email = None THEN
       LET v == single_validate_email(value)
       IN IF ~v[1] THEN Out(s, c, Ask(h, "email", v[2]))
          ELSE Out(store("email"), c, Ask(h, "address", None))
     ELSE IF customer_info.address = None THEN
       LET v == single_validate_address(value)
       IN IF ~v[1] THEN Out(s, c, Ask(h, "address", v[2]))
          ELSE Out(store("address"), c, Ask(h, "phone", None))
     ELSE IF customer_info.phone = None THEN
       LET v == single_validate_phone(value)
       IN IF ~v[1] THEN Out(s, c, Ask(h, "phone", v[2]))
          ELSE Out(store("phone"), c, Prompt(h, "pickup_date", None))
     ELSE IF customer_info.pickup_date = None THEN
       Out(store("pickup_date"), c, Prompt(h, "pickup_time", None))
     ELSE IF customer_info.pickup_time = None THEN
       Out([store("pickup_time") EXCEPT !.current_step = "selecting_service"], c,
           Reply(h, "service_selection"))
     ELSE Out(s, c, Reply(h, None))

single_handle_service_selection(s, c, user_input) ==
  LET h == "handle_service_selection"
      processed_input == Lower(user_input)
  IN IF Contains(processed_input, "dry") \/ Contains(processed_input, "dry cleaning")
     THEN Out([s EXCEPT !.selected_service = "dry_cleaning", !.current_step = "selecting_items"],
              c, Reply(h, "item_selection"))
     ELSE IF Contains(processed_input, "laundry")
     THEN Out([s EXCEPT !.selected_service = "laundry", !.current_step = "selecting_items"],
              c, Reply(h, "item_selection"))
     ELSE Out(s, c, Reply(h, "service_selection"))

get_item_keywords(item_key) ==
  IF Contains(item_key, "shirt") THEN {"shirt", "blouse"}
  ELSE IF Contains(item_key, "pants") THEN {"pants", "trousers"}
  ELSE IF Contains(item_key, "dress") THEN {"dress", "gown"}
  ELSE IF Contains(item_key, "coat") THEN {"coat", "jacket"}
  ELSE IF Contains(item_key, "bag") THEN {"bag", "laundry bag"}
  ELSE IF Contains(item_key, "comforter") THEN {"comforter", "duvet"}
  ELSE IF Contains(item_key, "blanket") THEN {"blanket"}
  ELSE {}

ParsedItem(key, quantity) == [key |-> key, quantity |-> quantity]

\* the matching loop of parse_item_request from catalog position i on; numbers
\* are the quantities not yet used
RECURSIVE single_parse_from(_, _, _, _)
single_parse_from(input_lower, service_type, numbers, i) ==
  LET service == single_load_service_catalog[service_type]
  IN IF i > Len(service.keys) THEN <<>>
     ELSE LET item_key == service.keys[i]
              item_name_lower == Lower(service.items[item_key].name)
              name_words == Split(item_name_lower)
              matches ==
                \/ Contains(input_lower, item_name_lower)
                \/ \E w \in 1..Len(name_words) :
                     Len(name_words[w]) > 3 /\ Contains(input_lower, name_words[w])
                \/ ContainsAny(input_lower, get_item_keywords(item_key))
          IN IF matches
             THEN <<ParsedItem(item_key, IF numbers # <<>> THEN numbers[1] ELSE 1)>>
                  \o single_parse_from(input_lower, service_type,
                                       IF numbers # <<>> THEN Tail(numbers) ELSE numbers, i + 1)
             ELSE single_parse_from(input_lower, service_type, numbers, i + 1)

single_parse_item_request(user_input, service_type) ==
  single_parse_from(Lower(user_input), service_type, FindNumbers(user_input), 1)

\* the loop adding the parsed items: <<session, counter, number added>>
RECURSIVE single_add_parsed(_, _, _, _)
single_add_parsed(s, c, service_type, parsed_items) ==
  IF parsed_items = <<>> THEN <<s, c, 0>>
  ELSE LET result == single_add_to_cart(s, c, service_type, Head(parsed_items).key,
                                        Head(parsed_items).quantity, <<>>)
           rest == single_add_parsed(result[1], result[2], service_type, Tail(parsed_items))
       IN <<rest[1], rest[2], rest[3] + (IF result[3] THEN 1 ELSE 0)>>

single_handle_item_selection(s, c, user_input) ==
  LET h == "handle_item_selection"
  IN IF s.selected_service = None THEN single_handle_service_selection(s, c, user_input)
     ELSE LET parsed_items == single_parse_item_request(user_input, s.selected_service)
          IN IF parsed_items = <<>> THEN Out(s, c, Reply(h, "item_selection"))
             ELSE LET added == single_add_parsed(s, c, s.selected_service, parsed_items)
                  IN IF added[3] > 0 THEN Out(added[1], added[2], Reply(h, "cart_update"))
                     ELSE Out(added[1], added[2], Reply(h, "item_selection"))

single_handle_option_selection(s, c) ==
  Out(s, c, NoSuggestions(Reply("handle_option_selection", "option_selection")))

\* handle_checkout stores a fresh dictionary under the session id
single_handle_checkout(s, c) ==
  IF s.cart = <<>> THEN Out(s, c, Reply("handle_checkout", "error"))
  ELSE Out(create_customer_session, c, Reply("handle_checkout", "checkout_success"))

Informational(intent) ==
  CASE intent = "services_inquiry" -> "handle_services_inquiry"
    [] intent = "pricing_inquiry"  -> "handle_pricing_inquiry"
    [] intent = "delivery_inquiry" -> "handle_delivery_inquiry"
    [] intent = "about_company"    -> "handle_about_inquiry"
    [] intent = "contact_info"     -> "handle_contact_inquiry"
    [] intent = "process_inquiry"  -> "handle_process_inquiry"
    [] OTHER                       -> "handle_general_inquiry"

\* handle_intent routing on the classifier's label before the keyword and
\* step tests
single_handle_intent_by_label(s, c, intent, user_input) ==
  LET current_step == s.current_step
      user_input_lower == Lower(user_input)
  IN IF intent = "greeting" THEN Out(s, c, Reply("handle_greeting", "greeting"))
     ELSE IF intent = "place_order" THEN single_start_order_process(s, c)
     ELSE IF ContainsAny(user_input_lower, CheckoutKeywords) THEN single_handle_checkout(s, c)
     ELSE IF ContainsAny(user_input_lower, ViewCartKeywords) THEN single_handle_view_cart(s, c)
     ELSE IF current_step = "collecting_info" THEN single_handle_info_collection(s, c, user_input)
     ELSE IF current_step = "selecting_service"
     THEN single_handle_service_selection(s, c, user_input)
     ELSE IF current_step = "selecting_items" THEN single_handle_item_selection(s, c, user_input)
     ELSE IF current_step = "adding_options" THEN single_handle_option_selection(s, c)
     ELSE Out(s, c, NoSuggestions(Reply(Informational(intent), "information")))

single_handle_intent(s, c, intent, user_input) ==
  LET current_step == s.current_step
      user_input_lower == Lower(user_input)
  IN IF ContainsAny(user_input_lower, CheckoutKeywords) THEN single_handle_checkout(s, c)
     ELSE IF ContainsAny(user_input_lower, ViewCartKeywords) THEN single_handle_view_cart(s, c)
     ELSE IF current_step = "collecting_info" THEN single_handle_info_collection(s, c, user_input)
     ELSE IF current_step = "selecting_service"
     THEN single_handle_service_selection(s, c, user_input)
     ELSE IF current_step = "selecting_items" THEN single_handle_item_selection(s, c, user_input)
     ELSE IF current_step = "adding_options" THEN single_handle_option_selection(s, c)
     ELSE IF intent = "greeting" THEN Out(s, c, Reply("handle_greeting", "greeting"))
     ELSE IF intent = "place_order" THEN single_start_order_process(s, c)
     ELSE Out(s, c, NoSuggestions(Reply(Informational(intent), "information")))

\* generate_response appends the bot's entry to the dictionary it fetched
\* before the dispatch; when handle_checkout has stored a fresh dictionary the
\* entry goes to the discarded one.
single_generate_response(s, c, raw_input, intent) ==
  LET user_input == sanitize_input(raw_input)
      heard == [s EXCEPT !.conversation_history = Remember(@, "user")]
      out == single_handle_intent(heard, c, intent, user_input)
  IN IF out.r.type = None
     THEN Out(out.s, out.c, Reply(out.r.handler, "exception"))
     ELSE IF out.r.type = "checkout_success" THEN out
     ELSE Out([out.s EXCEPT !.conversation_history = Remember(@, "bot")], out.c, out.r)

\* ---------------------------------------------------------------------------
\* valetkleen_chatbot_v2.py
\* ---------------------------------------------------------------------------
WeddingDressNoBoxPrice == 15000

\* add_to_cart: <<session, success>>; v2 cart entries carry no id
v2_add_to_cart(s, service_type, item_key, quantity, selected_options) ==
  IF service_type \notin DOMAIN v2_load_service_catalog THEN <<s, FALSE>>
  ELSE IF item_key \notin DOMAIN v2_load_service_catalog[service_type].items THEN <<s, FALSE>>
  ELSE LET item_info == v2_load_service_catalog[service_type].items[item_key]
           has(o) == \E i \in 1..Len(selected_options) : selected_options[i] = o
           base_price == IF item_key = "wedding_dress" /\ selected_options # <<>>
                         THEN IF has("Boxed") THEN 18000
                              ELSE IF has("No Box") THEN WeddingDressNoBoxPrice
                              ELSE item_info.price
                         ELSE item_info.price
           cart_item == CartItem(0, service_type, item_key, base_price, quantity,
                                 selected_options)
       IN <<[s EXCEPT !.cart = Append(@, cart_item)], TRUE>>

v2_start_order_process(s, c) ==
  Out([s EXCEPT !.current_step = "selecting_service_type"], c,
      Reply("start_order_process", "service_type_selection"))

v2_handle_service_type_selection(s, c, user_input) ==
  LET processed_input == Lower(user_input)
      h == "handle_service_type_selection"
  IN IF Contains(processed_input, "logistics") \/ Contains(processed_input, "pickup and delivery")
     THEN Out([s EXCEPT !.selected_service_type = "logistics",
                        !.current_step = "collecting_logistics_info",
                        !.logistics_info = {}], c,
              Response(h, "logistics_info_collection", None, None, None))
     ELSE IF Contains(processed_input, "laundry")
     THEN Out([s EXCEPT !.selected_service_type = "laundry", !.current_step = "collecting_info"],
              c, Prompt(h, "name", None))
     ELSE IF Contains(processed_input, "dry") \/ Contains(processed_input, "cleaning")
     THEN Out([s EXCEPT !.selected_service_type = "dry_cleaning",
                        !.current_step = "collecting_info"], c, Prompt(h, "name", None))
     ELSE Out(s, c, Reply(h, "service_type_selection"))

LooksLikeEmail(user_input) == Contains(user_input, "@") /\ Contains(user_input, ".")

InvalidEmailPrompt == "Please enter a valid email address (e.g., john@example.com):"

v2_handle_info_collection(s, c, user_input) ==
  LET customer_info == s.customer_info
      value == Strip(user_input)
      h == "handle_info_collection"
      store(field) == [s EXCEPT !.customer_info[field] = value]
  IN IF customer_info.name = None THEN Out(store("name"), c, Ask(h, "email", None))
     ELSE IF customer_info.email = None THEN
       IF LooksLikeEmail(user_input) THEN Out(store("email"), c, Ask(h, "address", None))
       ELSE Out(s, c, Ask(h, "email", InvalidEmailPrompt))
     ELSE IF customer_info.address = None THEN
       Out(store("address"), c, Ask(h, "phone", None))
     ELSE IF customer_info.phone = None THEN
       IF s.selected_service_type # None
       THEN Out([store("phone") EXCEPT !.current_step = "selecting_items",
                                       !.selected_service = s.selected_service_type],
                c, Reply(h, "item_selection"))
       ELSE Out([store("phone") EXCEPT !.current_step = "selecting_service"], c,
                Reply(h, "service_selection"))
     ELSE Out(s, c, Reply(h, None))

LogisticsFields ==
  <<"full_name", "home_address", "zip_code", "cell_phone", "home_phone", "email",
    "pickup_date", "pickup_time", "mart_name", "mart_address", "mart_phone">>

\* position of the first logistics field not yet set; past the end when all are
NextLogisticsField(logistics_info) ==
  IF \A i \in 1..Len(LogisticsFields) : LogisticsFields[i] \in logistics_info
  THEN Len(LogisticsFields) + 1
  ELSE CHOOSE i \in 1..Len(LogisticsFields) :
         /\ LogisticsFields[i] \notin logistics_info
         /\ \A j \in 1..(i - 1) : LogisticsFields[j] \in logistics_info

v2_handle_logistics_info_collection(s, c, user_input) ==
  LET h == "handle_logistics_info_collection"
      i == NextLogisticsField(s.logistics_info)
      ask(field, error) ==
        NoSuggestions(Response(h, "logistics_info_collection", field, error, None))
  IN IF i > Len(LogisticsFields) THEN Out(s, c, Reply(h, "logistics_confirmation"))
     ELSE IF LogisticsFields[i] = "email" /\ ~LooksLikeEmail(user_input)
     THEN Out(s, c, ask("email", InvalidEmailPrompt))
     ELSE IF i = Len(LogisticsFields)
     THEN Out([s EXCEPT !.logistics_info = @ \cup {LogisticsFields[i]},
                        !.current_step = "logistics_confirmation"], c,
              Reply(h, "logistics_confirmation"))
     ELSE Out([s EXCEPT !.logistics_info = @ \cup {LogisticsFields[i]}], c,
              ask(LogisticsFields[i + 1], None))

v2_handle_logistics_confirmation(s, c, user_input, now) ==
  LET user_input_lower == Lower(user_input)
      h == "handle_logistics_confirmation"
  IN IF Contains(user_input_lower, "edit information") \/ Contains(user_input_lower, "edit info")
     THEN Out([s EXCEPT !.logistics_info = {}, !.current_step = "collecting_logistics_info"], c,
              Response(h, "logistics_info_collection", None, None, None))
     ELSE IF Contains(user_input_lower, "confirm")
     THEN Out([s EXCEPT !.logistics_order = "LOG" \o Decimal(now)], c,
              Response(h, "logistics_completed", None, None, "LOG" \o Decimal(now)))
     ELSE Out(s, c, Reply(h, "logistics_confirmation"))

v2_handle_payment(s, c) ==
  Out(s, c, Reply("handle_payment",
                  IF s.logistics_order # None THEN "payment_redirect"
                  ELSE IF s.cart # <<>> THEN "payment_pending"
                  ELSE "no_order"))

\* create_stripe_checkout: the call to Stripe succeeds or raises
v2_create_stripe_checkout(s, c, stripe, now) ==
  LET h == "create_stripe_checkout"
      order_id == "VK_" \o Decimal(now)
  IN IF stripe = "ok"
     THEN Out([s EXCEPT !.order_id = order_id], c,
              Response(h, "payment_ready", None, None, order_id))
     ELSE IF stripe = "StripeError" THEN Out(s, c, Reply(h, "payment_error"))
     ELSE Out(s, c, Reply(h, "order_error"))

v2_handle_pickup_info_collection(s, c, user_input, stripe, now) ==
  LET h == "handle_pickup_info_collection"
      collecting == s.pickup_info.collecting
  IN IF collecting = "pickup_date"
     THEN Out([s EXCEPT !.pickup_info.pickup_date = Strip(user_input),
                        !.pickup_info.collecting = "pickup_time"], c,
              Reply(h, "pickup_scheduling"))
     ELSE IF collecting = "pickup_time"
     THEN v2_create_stripe_checkout([s EXCEPT !.pickup_info.pickup_time = Strip(user_input)],
                                    c, stripe, now)
     ELSE Out(s, c, NoSuggestions(Reply(h, "pickup_scheduling")))

v2_handle_service_selection(s, c, user_input) ==
  LET h == "handle_service_selection"
      processed_input == Lower(user_input)
  IN IF \/ Contains(processed_input, "dry cleaning")
        \/ (Contains(processed_input, "dry") /\ ~Contains(processed_input, "laundry"))
     THEN Out([s EXCEPT !.selected_service = "dry_cleaning", !.current_step = "selecting_items"],
              c, Reply(h, "item_selection"))
     ELSE IF Contains(processed_input, "laundry")
     THEN Out([s EXCEPT !.selected_service = "laundry", !.current_step = "selecting_items"],
              c, Reply(h, "item_selection"))
     ELSE Out(s, c, Reply(h, "service_selection"))

\* parse_item_request, the keyword parser used when the LLM parse fails
RECURSIVE v2_parse_from(_, _, _, _)
v2_parse_from(input_lower, service_type, numbers, i) ==
  LET service == v2_load_service_catalog[service_type]
  IN IF i > Len(service.keys) THEN <<>>
     ELSE LET item_key == service.keys[i]
              item_name_lower == Lower(service.items[item_key].name)
              name_words == Split(item_name_lower)
              matches ==
                \/ Contains(input_lower, item_name_lower)
                \/ \E w \in 1..Len(name_words) :
                     Len(name_words[w]) > 3 /\ Contains(input_lower, name_words[w])
                \/ ContainsAny(input_lower, get_item_keywords(item_key))
          IN IF matches
             THEN <<ParsedItem(item_key, IF numbers # <<>> THEN numbers[1] ELSE 1)>>
                  \o v2_parse_from(input_lower, service_type,
                                   IF numbers # <<>> THEN Tail(numbers) ELSE numbers, i + 1)
             ELSE v2_parse_from(input_lower, service_type, numbers, i + 1)

v2_parse_item_request(user_input, service_type) ==
  v2_parse_from(Lower(user_input), service_type, FindNumbers(user_input), 1)

\* the outcomes of the LLM call of detect_intent_with_llm other than a label:
\* the call raises, or its text has no line starting with INTENT:
LlmRaises == "<raises>"

LlmUnparsable == "<no INTENT line>"

\* detect_intent_with_llm: llm_intent is the outcome of the LLM call, detected
\* the label detect_intent returns for the input
v2_detect_intent_with_llm(llm_intent, detected) ==
  IF llm_intent = LlmRaises THEN detected
  ELSE IF llm_intent = LlmUnparsable THEN "information"
  ELSE llm_intent

\* the reply of the LLM when the call fails or its text is not JSON
LlmFailure == <<ParsedItem("<failure>", 0)>>

\* parse_item_request_with_llm: the items the LLM names are kept when the
\* selected service lists them; a failure falls back to the keyword parser
RECURSIVE KnownItems(_, _)
KnownItems(llm, service_type) ==
  IF llm = <<>> THEN <<>>
  ELSE (IF Head(llm).key \in DOMAIN v2_load_service_catalog[service_type].items
        THEN <<Head(llm)>> ELSE <<>>) \o KnownItems(Tail(llm), service_type)

v2_parse_item_request_with_llm(user_input, service_type, llm) ==
  IF llm = LlmFailure THEN v2_parse_item_request(user_input, service_type)
  ELSE KnownItems(llm, service_type)

\* the flush of the ready items adding nothing
v2_add_ready_none(s, service_type, items) == <<s, 0>>

\* the loop adding items that need no options: <<session, number added>>
RECURSIVE v2_add_ready(_, _, _)
v2_add_ready(s, service_type, items) ==
  IF items = <<>> THEN <<s, 0>>
  ELSE LET result == v2_add_to_cart(s, service_type, Head(items).key, Head(items).quantity, <<>>)
           rest == v2_add_ready(result[1], service_type, Tail(items))
       IN <<rest[1], rest[2] + (IF result[2] THEN 1 ELSE 0)>>

\* handle_item_selection adding the items without options at once, also when
\* other items of the utterance wait for their options
v2_handle_item_selection_eager(s, c, user_input, llm) ==
  LET h == "handle_item_selection"
      parsed_items == IF s.selected_service = None THEN <<>>
                      ELSE v2_parse_item_request_with_llm(user_input, s.selected_service, llm)
      NeedsOptions(item_info) ==
        v2_load_service_catalog[s.selected_service].items[item_info.key].options # <<>>
      Ready(item_info) == ~NeedsOptions(item_info)
      items_needing_options == SelectSeq(parsed_items, NeedsOptions)
      added == v2_add_ready(s, s.selected_service, SelectSeq(parsed_items, Ready))
  IN IF s.selected_service = None THEN v2_handle_service_selection(s, c, user_input)
     ELSE IF parsed_items = <<>> THEN Out(s, c, Reply(h, "item_selection"))
     ELSE IF items_needing_options # <<>>
     THEN Out([added[1] EXCEPT !.items_needing_options = Tail(items_needing_options),
                               !.items_ready_to_add = <<>>,
                               !.pending_item = Head(items_needing_options),
                               !.current_step = "adding_options"], c,
              Reply(h, "option_selection"))
     ELSE Out(added[1], c, Reply(h, IF added[2] > 0 THEN "cart_update" ELSE "item_selection"))

v2_handle_item_selection(s, c, user_input, llm) ==
  LET h == "handle_item_selection"
      selected_service == s.selected_service
  IN IF selected_service = None THEN v2_handle_service_selection(s, c, user_input)
     ELSE
       LET parsed_items == v2_parse_item_request_with_llm(user_input, selected_service, llm)
           NeedsOptions(item_info) ==
             v2_load_service_catalog[selected_service].items[item_info.key].options # <<>>
           Ready(item_info) == ~NeedsOptions(item_info)
           items_needing_options == SelectSeq(parsed_items, NeedsOptions)
           items_ready_to_add == SelectSeq(parsed_items, Ready)
       IN IF parsed_items = <<>> THEN Out(s, c, Reply(h, "item_selection"))
          ELSE IF items_needing_options # <<>>
          THEN Out([s EXCEPT !.items_needing_options = Tail(items_needing_options),
                             !.items_ready_to_add = items_ready_to_add,
                             !.pending_item = Head(items_needing_options),
                             !.current_step = "adding_options"], c,
                   Reply(h, "option_selection"))
          ELSE LET added == v2_add_ready(s, selected_service, items_ready_to_add)
               IN Out(added[1], c,
                      Reply(h, IF added[2] > 0 THEN "cart_update" ELSE "item_selection"))

\* the first of the candidate options named in the input, as a list of 0 or 1
FirstNamed(candidates, user_input_lower) ==
  LET named == SelectSeq(candidates, LAMBDA o : Contains(user_input_lower, Lower(o)))
  IN IF named = <<>> THEN <<>> ELSE <<Head(named)>>

\* a re-prompt that gives the pending item up and turns to the next queued one
v2_ask_both_skipping(s, c) ==
  Out(IF s.items_needing_options = <<>> THEN s
      ELSE [s EXCEPT !.pending_item = Head(s.items_needing_options),
                     !.items_needing_options = Tail(@)], c,
      Reply("handle_option_selection", "option_selection"))

\* the reply of handle_option_selection to an agbada / dashiki answer that
\* lacks the starch level or the cleaning instruction: nothing is stored
v2_ask_both(s, c) == Out(s, c, Reply("handle_option_selection", "option_selection"))

v2_handle_option_selection(s, c, user_input) ==
  LET h == "handle_option_selection"
      pending_item == s.pending_item
      selected_service == s.selected_service
      item_key == pending_item.key
      quantity == pending_item.quantity
      user_input_lower == Lower(user_input)
      available_options == v2_load_service_catalog[selected_service].items[item_key].options
      starch_selected ==
        FirstNamed(<<"No Starch", "Light Starch", "Medium Starch", "Heavy Starch">>,
                   user_input_lower)
      cleaning_selected == FirstNamed(<<"Hanger", "Fold">>, user_input_lower)
      declined == Contains(user_input_lower, "none")
      selected_options ==
        IF declined THEN <<>>
        ELSE IF item_key \in {"agbada", "dashiki"} THEN starch_selected \o cleaning_selected
        ELSE SelectSeq(available_options, LAMBDA o : Contains(user_input_lower, Lower(o)))
      result == v2_add_to_cart(s, selected_service, item_key, quantity, selected_options)
      added == result[1]
  IN IF pending_item = NoItem THEN Out(s, c, Reply(h, "error"))
     ELSE IF /\ ~declined
             /\ item_key \in {"agbada", "dashiki"}
             /\ (starch_selected = <<>> \/ cleaning_selected = <<>>)
     THEN v2_ask_both(s, c)
     ELSE IF ~result[2] THEN Out(s, c, Reply(h, "error"))
     ELSE IF added.items_needing_options # <<>>
     THEN Out([added EXCEPT !.items_needing_options = Tail(@),
                            !.pending_item = Head(added.items_needing_options)], c,
              Reply(h, "option_selection"))
     ELSE LET flushed == v2_add_ready(added, selected_service, added.items_ready_to_add)[1]
          IN Out([flushed EXCEPT !.pending_item = NoItem,
                                 !.items_needing_options = <<>>,
                                 !.items_ready_to_add = <<>>,
                                 !.current_step = "selecting_items"], c,
                 Reply(h, "cart_update"))

Falsy(value) == value = None \/ value = ""

v2_handle_checkout(s, c) ==
  LET h == "handle_checkout"
  IN IF s.cart = <<>> THEN Out(s, c, Reply(h, "error"))
     ELSE IF Falsy(s.pickup_info.pickup_date)
     THEN Out([s EXCEPT !.current_step = "collecting_pickup_info",
                        !.pickup_info = [EmptyPickup EXCEPT !.collecting = "pickup_date"]], c,
              Reply(h, "pickup_scheduling"))
     ELSE Out(create_customer_session, c, Reply(h, "checkout_success"))

v2_handle_intent(s, c, intent, user_input, llm, stripe, now) ==
  LET current_step == s.current_step
      user_input_lower == Lower(user_input)
  IN IF Contains(user_input_lower, "pay now") THEN v2_handle_payment(s, c)
     ELSE IF ContainsAny(user_input_lower, CheckoutKeywords) THEN v2_handle_checkout(s, c)
     ELSE IF current_step = "selecting_service_type"
     THEN v2_handle_service_type_selection(s, c, user_input)
     ELSE IF current_step = "collecting_info" THEN v2_handle_info_collection(s, c, user_input)
     ELSE IF current_step = "collecting_logistics_info"
     THEN v2_handle_logistics_info_collection(s, c, user_input)
     ELSE IF current_step = "collecting_pickup_info"
     THEN v2_handle_pickup_info_collection(s, c, user_input, stripe, now)
     ELSE IF current_step = "selecting_service" THEN v2_handle_service_selection(s, c, user_input)
     ELSE IF current_step = "selecting_items" THEN v2_handle_item_selection(s, c, user_input, llm)
     ELSE IF current_step = "adding_options" THEN v2_handle_option_selection(s, c, user_input)
     ELSE IF current_step = "logistics_confirmation"
     THEN v2_handle_logistics_confirmation(s, c, user_input, now)
     ELSE IF intent = "greeting" THEN Out(s, c, Reply("handle_greeting", "greeting"))
     ELSE IF intent = "place_order" THEN v2_start_order_process(s, c)
     ELSE Out(s, c, Reply(Informational(intent), "information"))

\* generate_response (the input is not sanitized in this file)
v2_generate_response(s, c, user_input, intent, llm, stripe, now) ==
  LET heard == [s EXCEPT !.conversation_history = Remember(@, "user")]
      out == v2_handle_intent(heard, c, intent, user_input, llm, stripe, now)
  IN IF out.r.type = None
     THEN Out(out.s, out.c, Reply(out.r.handler, "exception"))
     ELSE IF out.r.type = "checkout_success" THEN out
     ELSE Out([out.s EXCEPT !.conversation_history = Remember(@, "bot")], out.c, out.r)

\* ---------------------------------------------------------------------------
\* valetkleen_chatbot/services: the database-backed cart of the package.  The
\* cart_items table is kept in insertion order; a row id is one more than the
\* largest id in the table.
\* ---------------------------------------------------------------------------
Row(id, session_id, service_type, item_key, name, price, quantity, options) ==
  [id |-> id, session_id |-> session_id, service_type |-> service_type,
   item_key |-> item_key, name |-> name, price |-> price, quantity |-> quantity,
   options |-> options, total |-> price * quantity]

\* calculate_total that leaves the stored total as it was
calculate_total_stale(row) == row

calculate_total(row) == [row EXCEPT !.total = row.price * row.quantity]

\* position of the first row passing the filter, 0 when there is none
FirstRow(rows, Test(_)) ==
  IF \E i \in 1..Len(rows) : Test(rows[i])
  THEN CHOOSE i \in 1..Len(rows) : Test(rows[i]) /\ \A j \in 1..(i - 1) : ~Test(rows[j])
  ELSE 0

RECURSIVE MaxId(_)
MaxId(rows) ==
  IF rows = <<>> THEN 0
  ELSE LET m == MaxId(Tail(rows)) IN IF Head(rows).id > m THEN Head(rows).id ELSE m

\* a new row of the sessions table: current_step 'welcome', conversation_history
\* '[]', updated_at the clock of the insert
SessionRow(now) ==
  [current_step |-> "welcome", conversation_history |-> <<>>, updated_at |-> now]

\* db.session.add(session) and commit of create_session
InsertSession(d, session_id, now) ==
  [d EXCEPT !.sessions = [sid \in DOMAIN d.sessions \cup {session_id} |->
                            IF sid = session_id THEN SessionRow(now) ELSE d.sessions[sid]]]

\* SessionService.create_session run without interruption: the database with
\* the existing row, or with a new one
create_session(d, session_id, now) ==
  IF session_id \in DOMAIN d.sessions THEN d ELSE InsertSession(d, session_id, now)

\* SessionService.update_step: <<database, result>>
update_step(d, session_id, step, now) ==
  IF session_id \in DOMAIN d.sessions
  THEN <<[d EXCEPT !.sessions[session_id].current_step = step,
                   !.sessions[session_id].updated_at = now], TRUE>>
  ELSE <<d, FALSE>>

\* SessionService.add_conversation_entry with Session.add_to_history:
\* <<database, result>>; the write of the row sets updated_at (onupdate)
add_conversation_entry(d, session_id, role, message, now) ==
  IF session_id \in DOMAIN d.sessions
  THEN <<[d EXCEPT !.sessions[session_id].conversation_history =
                     Append(@, [role |-> role, message |-> message, timestamp |-> now]),
                   !.sessions[session_id].updated_at = now], TRUE>>
  ELSE <<d, FALSE>>

get_cart_items(d, session_id) ==
  SelectSeq(d.cart_items, LAMBDA row : row.session_id = session_id)

\* CartService.get_cart_total
db_get_cart_total(d, session_id) == SumTotals(get_cart_items(d, session_id))

\* add_item after its session check: <<database, result>>
AddOrMerge(d, session_id, service_type, item_key, name, price, quantity, options) ==
  LET Same(row) == /\ row.session_id = session_id
                   /\ row.service_type = service_type
                   /\ row.item_key = item_key
      existing == FirstRow(d.cart_items, Same)
      merged == [d EXCEPT !.cart_items[existing] =
                            calculate_total([@ EXCEPT !.quantity = @ + quantity])]
      added == [d EXCEPT !.cart_items =
                           Append(@, Row(MaxId(d.cart_items) + 1, session_id, service_type,
                                         item_key, name, price, quantity, options))]
  IN IF existing # 0 THEN <<merged, CartResult(db_get_cart_total(merged, session_id))>>
     ELSE <<added, CartResult(db_get_cart_total(added, session_id))>>

\* CartService.add_item run without interruption: <<database, result>>
add_item(d, session_id, service_type, item_key, name, price, quantity, options) ==
  IF session_id \notin DOMAIN d.sessions THEN <<d, Failure("Session not found")>>
  ELSE AddOrMerge(d, session_id, service_type, item_key, name, price, quantity, options)

\* remove_item that looks the row up by id alone
remove_item_any_session(d, session_id, item_id) ==
  LET WithId(row) == row.id = item_id
      i == FirstRow(d.cart_items, WithId)
      removed == [d EXCEPT !.cart_items = PopAt(@, i)]
  IN IF i = 0 THEN <<d, Failure("Item not found in cart")>>
     ELSE <<removed, CartResult(db_get_cart_total(removed, session_id))>>

\* CartService.remove_item: <<database, result>>
remove_item(d, session_id, item_id) ==
  LET Mine(row) == row.session_id = session_id /\ row.id = item_id
      i == FirstRow(d.cart_items, Mine)
      removed == [d EXCEPT !.cart_items = PopAt(@, i)]
  IN IF i = 0 THEN <<d, Failure("Item not found in cart")>>
     ELSE <<removed, CartResult(db_get_cart_total(removed, session_id))>>

\* update_quantity that stores any quantity it is given
update_quantity_stored(d, session_id, item_id, new_quantity) ==
  LET Mine(row) == row.session_id = session_id /\ row.id = item_id
      i == FirstRow(d.cart_items, Mine)
      updated == [d EXCEPT !.cart_items[i] =
                             calculate_total([@ EXCEPT !.quantity = new_quantity])]
  IN IF i = 0 THEN <<d, Failure("Item not found in cart")>>
     ELSE <<updated, CartResult(db_get_cart_total(updated, session_id))>>

\* CartService.update_quantity: <<database, result>>
update_quantity(d, session_id, item_id, new_quantity) ==
  LET Mine(row) == row.session_id = session_id /\ row.id = item_id
      i == FirstRow(d.cart_items, Mine)
      updated == [d EXCEPT !.cart_items[i] =
                             calculate_total([@ EXCEPT !.quantity = new_quantity])]
  IN IF new_quantity < 1 THEN remove_item(d, session_id, item_id)
     ELSE IF i = 0 THEN <<d, Failure("Item not found in cart")>>
     ELSE <<updated, CartResult(db_get_cart_total(updated, session_id))>>

\* clear_cart that deletes the rows of every session
clear_cart_every_session(d, session_id) ==
  <<[d EXCEPT !.cart_items = <<>>], Cleared>>

\* CartService.clear_cart: <<database, result>>
clear_cart(d, session_id) ==
  <<[d EXCEPT !.cart_items = SelectSeq(@, LAMBDA row : row.session_id # session_id)],
    Cleared>>

\* ---------------------------------------------------------------------------
\* valetkleen_chatbot/services: customers and orders.  A customers row holds
\* the fields of one session; an orders row copies the cart of its session.
\* ---------------------------------------------------------------------------
Customer(id, session_id) ==
  [id |-> id, session_id |-> session_id, name |-> None, email |-> None, phone |-> None,
   address |-> None, pickup_date |-> None, pickup_time |-> None]

\* SessionService.save_customer_info: <<database, success>>; info is a
\* dictionary, and the fields the customers row does not have are skipped
save_customer_info(d, session_id, info) ==
  LET Mine(row) == row.session_id = session_id
      existing == FirstRow(d.customers, Mine)
      customers == IF existing = 0
                   THEN Append(d.customers, Customer(MaxId(d.customers) + 1, session_id))
                   ELSE d.customers
      i == IF existing = 0 THEN Len(customers) ELSE existing
      customer == customers[i]
      updated == [field \in DOMAIN customer |->
                    IF field \in DOMAIN info THEN info[field]
                    ELSE customer[field]]
  IN IF session_id \notin DOMAIN d.sessions THEN <<d, FALSE>>
     ELSE <<[d EXCEPT !.customers = [customers EXCEPT ![i] = updated]], TRUE>>

\* Config.SESSION_TIMEOUT_HOURS
SESSION_TIMEOUT_HOURS == 24

\* SessionService.cleanup_old_sessions: <<database, count>>; deleting a
\* session deletes its cart_items and customers rows (the relationships of
\* Session cascade); now is the clock in hours
cleanup_old_sessions(d, now) ==
  LET cutoff_time == now - SESSION_TIMEOUT_HOURS
      old_sessions == {sid \in DOMAIN d.sessions : d.sessions[sid].updated_at < cutoff_time}
      Kept(row) == row.session_id \notin old_sessions
  IN <<[d EXCEPT !.sessions = [sid \in DOMAIN d.sessions \ old_sessions |-> d.sessions[sid]],
                 !.cart_items = SelectSeq(@, Kept),
                 !.customers = SelectSeq(@, Kept)],
       Cardinality(old_sessions)>>

\* Order.generate_order_number: the minute of the clock and a random suffix
MinRandomSuffix == 100

MaxRandomSuffix == 999

generate_order_number(now, random_suffix) == "VK" \o Decimal(now) \o Decimal(random_suffix)

\* the entry of order_items that create_order builds for one cart row
OrderItem(item) ==
  [service_type |-> item.service_type, item_key |-> item.item_key, name |-> item.name,
   price |-> item.price, quantity |-> item.quantity, options |-> item.options,
   total |-> item.total]

RECURSIVE OrderItems(_)
OrderItems(cart_items) ==
  IF cart_items = <<>> THEN <<>>
  ELSE <<OrderItem(Head(cart_items))>> \o OrderItems(Tail(cart_items))

valid_statuses == {"pending", "processing", "completed", "cancelled"}

\* the order_number column is unique: a commit that would store a second
\* order with a stored number raises, and create_order rolls back
UniqueViolation(d, order_number) ==
  \E i \in 1..Len(d.orders) : d.orders[i].order_number = order_number

\* create_order that does not look at the cart before it builds the order
create_order_cart_unchecked(d, session_id, order_number, now) ==
  LET Mine(row) == row.session_id = session_id
      c == FirstRow(d.customers, Mine)
      cart_items == get_cart_items(d, session_id)
      total_amount == SumTotals(cart_items)
      order == [id |-> MaxId(d.orders) + 1, order_number |-> order_number,
                customer_id |-> d.customers[c].id, items |-> OrderItems(cart_items),
                total_amount |-> total_amount, status |-> "pending",
                pickup_date |-> d.customers[c].pickup_date,
                pickup_time |-> d.customers[c].pickup_time, updated_at |-> now]
  IN IF c = 0 THEN <<d, Failure("Customer information not found")>>
     ELSE IF UniqueViolation(d, order_number)
     THEN <<d, Failure("UNIQUE constraint failed: orders.order_number")>>
     ELSE <<[d EXCEPT !.orders = Append(@, order),
                      !.cart_items = SelectSeq(@, LAMBDA row : row.session_id # session_id)],
            [success |-> TRUE, order_number |-> order_number, total |-> total_amount]>>

\* create_order without the rollback: when the commit fails the cart rows are
\* deleted all the same
create_order_no_rollback(d, session_id, order_number, now) ==
  LET Mine(row) == row.session_id = session_id
      c == FirstRow(d.customers, Mine)
      cart_items == get_cart_items(d, session_id)
      total_amount == SumTotals(cart_items)
      order == [id |-> MaxId(d.orders) + 1, order_number |-> order_number,
                customer_id |-> d.customers[c].id, items |-> OrderItems(cart_items),
                total_amount |-> total_amount, status |-> "pending",
                pickup_date |-> d.customers[c].pickup_date,
                pickup_time |-> d.customers[c].pickup_time, updated_at |-> now]
      cleared == [d EXCEPT !.cart_items = SelectSeq(@, LAMBDA row : row.session_id # session_id)]
  IN IF c = 0 THEN <<d, Failure("Customer information not found")>>
     ELSE IF cart_items = <<>> THEN <<d, Failure("Cart is empty")>>
     ELSE IF UniqueViolation(d, order_number)
     THEN <<cleared, Failure("UNIQUE constraint failed: orders.order_number")>>
     ELSE <<[cleared EXCEPT !.orders = Append(@, order)],
            [success |-> TRUE, order_number |-> order_number, total |-> total_amount]>>

\* OrderService.create_order: <<database, result>>; order_number is the value
\* generate_order_number returned and now the clock of the commit
create_order(d, session_id, order_number, now) ==
  LET Mine(row) == row.session_id = session_id
      c == FirstRow(d.customers, Mine)
      cart_items == get_cart_items(d, session_id)
      total_amount == SumTotals(cart_items)
      order == [id |-> MaxId(d.orders) + 1, order_number |-> order_number,
                customer_id |-> d.customers[c].id, items |-> OrderItems(cart_items),
                total_amount |-> total_amount, status |-> "pending",
                pickup_date |-> d.customers[c].pickup_date,
                pickup_time |-> d.customers[c].pickup_time, updated_at |-> now]
  IN IF c = 0 THEN <<d, Failure("Customer information not found")>>
     ELSE IF cart_items = <<>> THEN <<d, Failure("Cart is empty")>>
     ELSE IF UniqueViolation(d, order_number)
     THEN <<d, Failure("UNIQUE constraint failed: orders.order_number")>>
     ELSE <<[d EXCEPT !.orders = Append(@, order),
                      !.cart_items = SelectSeq(@, LAMBDA row : row.session_id # session_id)],
            [success |-> TRUE, order_number |-> order_number, total |-> total_amount]>>

\* OrderService.get_order: the position of the order, 0 when there is none
get_order(d, order_number) ==
  LET Numbered(row) == row.order_number = order_number
  IN FirstRow(d.orders, Numbered)

\* OrderService.update_order_status: <<database, success>>
update_order_status(d, order_number, status, now) ==
  LET i == get_order(d, order_number)
  IN IF status \notin valid_statuses THEN <<d, FALSE>>
     ELSE IF i = 0 THEN <<d, FALSE>>
     ELSE <<[d EXCEPT !.orders[i].status = status, !.orders[i].updated_at = now], TRUE>>

\* OrderService.cancel_order: <<database, result>>
cancel_order(d, order_number, now) ==
  LET i == get_order(d, order_number)
  IN IF i = 0 THEN <<d, Failure("Order not found")>>
     ELSE IF d.orders[i].status \in {"completed", "cancelled"}
     THEN <<d, Failure("Cannot cancel " \o d.orders[i].status \o " order")>>
     ELSE <<[d EXCEPT !.orders[i].status = "cancelled", !.orders[i].updated_at = now],
            [success |-> TRUE]>>

\* ---------------------------------------------------------------------------
\* The state machine.  A behaviour runs one of the implementations of the
\* repository: the v2 chatbot, the single-file chatbot, the render chatbot, or
\* the database services of the package.
\* ---------------------------------------------------------------------------
VARIABLES variant, customer_sessions, cart_item_counter, response, db, clock, calls,
          classified

vars == <<variant, customer_sessions, cart_item_counter, response, db, clock, calls, classified>>

Variants == {"v2", "single", "render", "db"}

SessionIds == {"s1"}

DbSessionIds == {"s1", "s2"}

MaxCartLines == 3
MaxCartItemId == 4
MaxTime == 1
MaxRows == 2
MaxLineQuantity == 3
MaxOrders == 1

\* row ids the callers of the cart service name
RowIds == 1..(MaxRows + 1)

Timestamps == 1..MaxTime

\* The clock is enumerated where a handler reads it: handle_checkout of the
\* render chatbot with a cart to order, create_stripe_checkout and
\* handle_logistics_confirmation of v2.
TimestampsAt(v, s) ==
  IF \/ v = "render" /\ s.cart # <<>>
     \/ v = "v2" /\ s.current_step \in {"collecting_pickup_info", "logistics_confirmation"}
  THEN Timestamps ELSE {1}

\* What the user types.  Commands are offered at every step; the answers are
\* the ones the prompt of the step asks for, with texts that fail it.
Commands(v) ==
  CASE v = "v2"     -> {"Proceed to Checkout", "View Cart", "pay now"}
    [] v = "single" -> {"Proceed to Checkout", "View Cart"}
    [] v = "render" -> {"Proceed to Checkout", "View Cart", "remove item 1",
                        "update item 1 to 3", "update item 2 to 0", "clear cart"}

Answers(v, step) ==
  CASE step = "welcome"                   -> {"place order", "hello"}
    [] step = "selecting_service_type"    -> {"dry cleaning", "laundry", "logistics", "hello"}
    [] step = "collecting_info"           ->
         IF v = "v2" THEN {"a@b.co", "x"}
         ELSE {"a@b.co", "not-an-email", "12 Elm Street", "555-123-4567"}
    [] step = "selecting_service"         -> {"dry cleaning", "laundry", "hello"}
    [] step = "selecting_items"           ->
         IF v = "v2" THEN {"hello"} ELSE {"2 pants", "hello"}
    [] step = "adding_options"            ->
         {"Crease", "No Box"} \cup (IF v = "v2" THEN {"Light Starch"} ELSE {})
    [] step = "collecting_pickup_info"    -> {"Monday"}
    [] step = "collecting_logistics_info" -> {"a@b.co", "not-an-email"}
    [] step = "logistics_confirmation"    -> {"confirm", "edit info", "hello"}

Utterances(v, step) == Commands(v) \cup Answers(v, step)

Intents == {"greeting", "place_order", "pricing_inquiry", "unknown"}

\* the steps handle_intent hands to a step handler
HandledSteps(v) ==
  IF v = "v2"
  THEN {"selecting_service_type", "collecting_info", "collecting_logistics_info",
        "collecting_pickup_info", "selecting_service", "selecting_items", "adding_options",
        "logistics_confirmation"}
  ELSE {"collecting_info", "selecting_service", "selecting_items", "adding_options"}

\* The classifier labels every utterance; the label is enumerated where
\* handle_intent reads it.
IntentsAt(v, step) == IF step \in HandledSteps(v) THEN {"unknown"} ELSE Intents

\* What the LLM item parser answers: a failure, or a list of catalog items.
LlmReplies ==
  {LlmFailure,
   <<>>,
   <<ParsedItem("bag_small", 1)>>,
   <<ParsedItem("pants", 1), ParsedItem("office_shirt", 2), ParsedItem("wedding_dress", 1)>>,
   <<ParsedItem("agbada", 1), ParsedItem("pants", 1), ParsedItem("wedding_dress", 1)>>}

LlmRepliesAt(step) == IF step = "selecting_items" THEN LlmReplies ELSE {LlmFailure}

\* What the LLM intent classifier does: it raises, answers without a label, or
\* answers a label; enumerated where handle_intent reads the label.
LlmIntents == {LlmRaises, LlmUnparsable, "place_order"}

LlmIntentsAt(step) == IF step \in HandledSteps("v2") THEN {LlmRaises} ELSE LlmIntents

StripeOutcomes == {"ok", "StripeError", "Exception"}

StripeOutcomesAt(s) ==
  IF s.current_step = "collecting_pickup_info" /\ s.pickup_info.collecting = "pickup_time"
  THEN StripeOutcomes ELSE {"ok"}

NoResponse == Reply(None, None)

EmptyDb ==
  [sessions |-> [sid \in {} |-> SessionRow(0)], cart_items |-> <<>>, customers |-> <<>>, orders |-> <<>>]

\* The callers of the services: request threads whose calls interleave at the
\* queries and commits of the database.  A call is the operation, its session,
\* its position ("checked": the session query has returned and the commit is
\* to come; "returned", "failed", "raised": it is over) and the hour of its
\* last step.
Threads == {"t1", "t2"}

Call(op, session_id, pc, at) == [op |-> op, session_id |-> session_id, pc |-> pc, at |-> at]

NoCalls == [t \in Threads |-> Call("idle", None, "returned", 0)]

Init ==
  /\ variant \in Variants
  /\ customer_sessions = [sid \in {} |-> create_customer_session]
  /\ cart_item_counter = 0
  /\ response = NoResponse
  /\ db = EmptyDb
  /\ clock = 0
  /\ calls = NoCalls
  /\ classified = None

\* create_customer_session: the stored session, or a new one
SessionOf(sid) ==
  IF sid \in DOMAIN customer_sessions THEN customer_sessions[sid] ELSE create_customer_session

Store(sid, s) ==
  [x \in DOMAIN customer_sessions \cup {sid} |-> IF x = sid THEN s ELSE customer_sessions[x]]

\* the model stops a behaviour where a cart or the item counter would outgrow
\* its bound
WithinBounds(out) == Len(out.s.cart) <= MaxCartLines /\ out.c <= MaxCartItemId

\* asked is the current_step of the session when generate_response called
\* detect_intent_with_llm on the utterance, None when the turn did not call it
Deliver(sid, out, asked) ==
  /\ WithinBounds(out)
  /\ classified' = asked
  /\ customer_sessions' = Store(sid, out.s)
  /\ cart_item_counter' = out.c
  /\ response' = [out.r EXCEPT !.session_id = IF out.r.type = "exception" THEN None ELSE sid]
  /\ UNCHANGED <<variant, db, clock, calls>>

\* POST /chat of valetkleen_chatbot_v2.py
V2Chat(sid) ==
  /\ variant = "v2"
  /\ LET s == SessionOf(sid)
     IN \E u \in Utterances("v2", s.current_step), detected \in IntentsAt("v2", s.current_step),
           llm_intent \in LlmIntentsAt(s.current_step),
           llm \in LlmRepliesAt(s.current_step), stripe \in StripeOutcomesAt(s),
           now \in TimestampsAt("v2", s) :
          Deliver(sid, v2_generate_response(s, cart_item_counter, u,
                                            v2_detect_intent_with_llm(llm_intent, detected),
                                            llm, stripe, now), s.current_step)

\* POST /chat of valetkleen_chatbot_single.py
SingleChat(sid) ==
  /\ variant = "single"
  /\ LET s == SessionOf(sid)
     IN \E u \in Utterances("single", s.current_step),
           intent \in IntentsAt("single", s.current_step) :
          Deliver(sid, single_generate_response(s, cart_item_counter, u, intent), s.current_step)

\* POST /chat of valetkleen_chatbot_render.py
RenderChat(sid) ==
  /\ variant = "render"
  /\ LET s == SessionOf(sid)
     IN \E u \in Utterances("render", s.current_step), now \in TimestampsAt("render", s) :
          Deliver(sid, render_generate_response(s, cart_item_counter, u, now), None)

\* the model stops a behaviour where a table, a row id or a quantity would
\* outgrow its bound
DbStep(d) ==
  /\ Len(d.cart_items) <= MaxRows
  /\ MaxId(d.cart_items) \in RowIds \cup {0}
  /\ \A i \in 1..Len(d.cart_items) : d.cart_items[i].quantity <= MaxLineQuantity
  /\ Len(d.orders) <= MaxOrders
  /\ db' = d
  /\ UNCHANGED <<variant, customer_sessions, cart_item_counter, response, clock, calls, classified>>

\* the cart service alone, and the cart, session and order services together
DbVariants == {"db", "orders"}

\* the sessions that act: two with carts in the runs of the cart service
\* alone, one in the runs with orders
ActingSessions(v) == IF v = "db" THEN DbSessionIds ELSE SessionIds

CreateSession(sid) ==
  /\ variant \in DbVariants
  /\ sid \in ActingSessions(variant)
  /\ DbStep(create_session(db, sid, clock))

DbPrices == {550, 750}

\* what the callers of add_item pass: in the runs of the cart service alone
\* two items at either price, without options, and Pants with a crease; in the
\* runs with orders two Office Shirts and a boxed Wedding Dress
AddInputs(v) ==
  IF v = "db"
  THEN [service_type : {"dry_cleaning"}, item_key : {"office_shirt"}, name : {"Office Shirt"},
        price : DbPrices, quantity : {1, 2}, options : {<<>>}]
       \cup [service_type : {"dry_cleaning"}, item_key : {"pants"}, name : {"Pants"},
             price : DbPrices, quantity : {1, 2}, options : {<<>>}]
       \cup {[service_type |-> "dry_cleaning", item_key |-> "pants", name |-> "Pants",
               price |-> 750, quantity |-> 1, options |-> <<"Crease">>]}
  ELSE {[service_type |-> "dry_cleaning", item_key |-> "office_shirt", name |-> "Office Shirt",
         price |-> 550, quantity |-> 2, options |-> <<>>],
        [service_type |-> "dry_cleaning", item_key |-> "wedding_dress",
         name |-> "Wedding Dress", price |-> 18000, quantity |-> 1,
         options |-> <<"Boxed">>]}

AddItem(sid) ==
  /\ variant \in DbVariants
  /\ sid \in ActingSessions(variant)
  /\ \E in \in AddInputs(variant) :
       DbStep(add_item(db, sid, in.service_type, in.item_key, in.name, in.price,
                       in.quantity, in.options)[1])

RemoveItem(sid) ==
  /\ variant = "db"
  /\ \E item_id \in RowIds : DbStep(remove_item(db, sid, item_id)[1])

UpdateQuantity(sid) ==
  /\ variant = "db"
  /\ \E item_id \in RowIds, new_quantity \in {0, 3} :
       DbStep(update_quantity(db, sid, item_id, new_quantity)[1])

ClearCart(sid) ==
  /\ variant \in DbVariants
  /\ sid \in ActingSessions(variant)
  /\ DbStep(clear_cart(db, sid)[1])

\* the dictionaries passed to save_customer_info: the fields of a customer,
\* and the same without a name and with a field the customers table does not
\* have
CustomerInfos ==
  {[name |-> "Ann", email |-> "ann@b.co", address |-> "12 Oak Street", phone |-> "5551234567",
    pickup_date |-> "Monday", pickup_time |-> "9am"],
   [email |-> "ann@b.co", pickup_date |-> "Monday", pickup_time |-> "9am", nickname |-> "A"]}

SaveCustomerInfo(sid) ==
  /\ variant = "orders"
  /\ sid \in ActingSessions(variant)
  /\ \E customer_info \in CustomerInfos : DbStep(save_customer_info(db, sid, customer_info)[1])

\* the suffixes random.randint draws in the model: the two ends of its range
RandomSuffixes == {MinRandomSuffix, MaxRandomSuffix}

\* the order services run within one minute of the clock, where two order
\* numbers differ by their suffix alone
OrderClock == {MaxTime}

OrderNumbers ==
  {generate_order_number(now, suffix) : now \in OrderClock, suffix \in RandomSuffixes}

CreateOrder(sid) ==
  /\ variant = "orders"
  /\ sid \in ActingSessions(variant)
  /\ \E now \in OrderClock, random_suffix \in RandomSuffixes :
       DbStep(create_order(db, sid, generate_order_number(now, random_suffix), now)[1])

UpdateOrderStatus ==
  /\ variant = "orders"
  /\ \E order_number \in OrderNumbers, status \in {"completed", "shipped"}, now \in OrderClock :
       DbStep(update_order_status(db, order_number, status, now)[1])

CancelOrder ==
  /\ variant = "orders"
  /\ \E order_number \in OrderNumbers, now \in OrderClock :
       DbStep(cancel_order(db, order_number, now)[1])

Next ==
  \/ \E sid \in SessionIds : V2Chat(sid)
  \/ \E sid \in SessionIds : SingleChat(sid)
  \/ \E sid \in SessionIds : RenderChat(sid)
  \/ \E sid \in DbSessionIds : CreateSession(sid)
  \/ \E sid \in DbSessionIds : AddItem(sid)
  \/ \E sid \in DbSessionIds : RemoveItem(sid)
  \/ \E sid \in DbSessionIds : UpdateQuantity(sid)
  \/ \E sid \in DbSessionIds : ClearCart(sid)

Spec == Init /\ [][Next]_vars

\* The cart, session and order services of the package on one database.
OrderInit ==
  /\ variant = "orders"
  /\ customer_sessions = [sid \in {} |-> create_customer_session]
  /\ cart_item_counter = 0
  /\ response = NoResponse
  /\ db = EmptyDb
  /\ clock = 0
  /\ calls = NoCalls
  /\ classified = None

OrderNext ==
  \/ \E sid \in SessionIds : CreateSession(sid)
  \/ \E sid \in SessionIds : AddItem(sid)
  \/ \E sid \in SessionIds : ClearCart(sid)
  \/ \E sid \in SessionIds : SaveCustomerInfo(sid)
  \/ \E sid \in SessionIds : CreateOrder(sid)
  \/ UpdateOrderStatus
  \/ CancelOrder

OrderSpec == OrderInit /\ [][OrderNext]_vars

\* The session and cart services called from two threads, with the clock
\* running and cleanup_old_sessions as a background job.  create_session and
\* add_item take two steps, the query of the sessions row and the commit, and
\* another thread or the cleanup can run between them.
MaxTicks == 3
MaxEntries == 1

\* the clock moves by half the session timeout
TickHours == SESSION_TIMEOUT_HOURS \div 2

SessionInit ==
  /\ variant = "sessions"
  /\ customer_sessions = [sid \in {} |-> create_customer_session]
  /\ cart_item_counter = 0
  /\ response = NoResponse
  /\ db = EmptyDb
  /\ clock = 0
  /\ calls = NoCalls
  /\ classified = None

InFlight(t) == calls[t].pc = "checked"

SessionStep(t, d, op, session_id, pc) ==
  /\ Len(d.cart_items) <= MaxRows
  /\ \A i \in 1..Len(d.cart_items) : d.cart_items[i].quantity <= MaxLineQuantity
  /\ db' = d
  /\ calls' = [calls EXCEPT ![t] = Call(op, session_id, pc, clock)]
  /\ UNCHANGED <<variant, customer_sessions, cart_item_counter, response, clock, classified>>

Tick ==
  /\ variant = "sessions"
  /\ clock + TickHours <= MaxTicks * TickHours
  /\ clock' = clock + TickHours
  /\ UNCHANGED <<variant, customer_sessions, cart_item_counter, response, db, calls, classified>>

\* create_session up to Session.query.get: the existing row is returned
CreateSessionQuery(t, sid) ==
  /\ variant = "sessions" /\ ~InFlight(t)
  /\ SessionStep(t, db, "create_session", sid,
                 IF sid \in DOMAIN db.sessions THEN "returned" ELSE "checked")

\* create_session from db.session.add to the commit: the primary key of the
\* row another call has inserted meanwhile makes the commit raise, and the
\* handler rolls back and raises again
CreateSessionCommit(t) ==
  /\ variant = "sessions" /\ InFlight(t) /\ calls[t].op = "create_session"
  /\ LET sid == calls[t].session_id
     IN IF sid \in DOMAIN db.sessions
        THEN SessionStep(t, db, "create_session", sid, "raised")
        ELSE SessionStep(t, InsertSession(db, sid, clock), "create_session", sid, "returned")

\* the item the threads add
ThreadItem ==
  [service_type |-> "dry_cleaning", item_key |-> "office_shirt", name |-> "Office Shirt",
   price |-> 550, quantity |-> 1, options |-> <<>>]

\* add_item up to Session.query.get: without the row it returns its failure
AddItemQuery(t, sid) ==
  /\ variant = "sessions" /\ ~InFlight(t)
  /\ SessionStep(t, db, "add_item", sid,
                 IF sid \in DOMAIN db.sessions THEN "checked" ELSE "failed")

\* add_item from the query of the cart row to the commit.  When the sessions
\* row has been deleted meanwhile, the insert of the cart row either violates
\* the foreign key (the commit raises, add_item rolls back and returns its
\* failure) or, in a database that does not enforce foreign keys (SQLite by
\* default), is committed.
AddItemCommit(t) ==
  /\ variant = "sessions" /\ InFlight(t) /\ calls[t].op = "add_item"
  /\ LET sid == calls[t].session_id
         in == ThreadItem
         out == AddOrMerge(db, sid, in.service_type, in.item_key, in.name, in.price,
                           in.quantity, in.options)
     IN \/ /\ sid \in DOMAIN db.sessions
           /\ SessionStep(t, out[1], "add_item", sid, "returned")
        \/ /\ sid \notin DOMAIN db.sessions
           /\ \/ SessionStep(t, db, "add_item", sid, "failed")
              \/ SessionStep(t, out[1], "add_item", sid, "returned")

ThreadSteps == {"collecting_info"}

UpdateStep(t, sid) ==
  /\ variant = "sessions" /\ ~InFlight(t)
  /\ \E step \in ThreadSteps :
       \A out \in {update_step(db, sid, step, clock)} :
         SessionStep(t, out[1], "update_step", sid, IF out[2] THEN "returned" ELSE "failed")

AddConversationEntry(t, sid) ==
  /\ variant = "sessions" /\ ~InFlight(t)
  /\ sid \in DOMAIN db.sessions => Len(db.sessions[sid].conversation_history) < MaxEntries
  /\ \A out \in {add_conversation_entry(db, sid, "user", "hello", clock)} :
       SessionStep(t, out[1], "add_conversation_entry", sid,
                   IF out[2] THEN "returned" ELSE "failed")

ThreadSaveCustomerInfo(t, sid) ==
  /\ variant = "sessions" /\ ~InFlight(t)
  /\ \A out \in {save_customer_info(db, sid, [name |-> "Ann"])} :
       SessionStep(t, out[1], "save_customer_info", sid,
                   IF out[2] THEN "returned" ELSE "failed")

\* the background job
CleanupOldSessions ==
  /\ variant = "sessions"
  /\ db' = cleanup_old_sessions(db, clock)[1]
  /\ UNCHANGED <<variant, customer_sessions, cart_item_counter, response, clock, calls, classified>>

SessionNext ==
  \/ Tick
  \/ \E t \in Threads, sid \in SessionIds : CreateSessionQuery(t, sid)
  \/ \E t \in Threads : CreateSessionCommit(t)
  \/ \E t \in Threads, sid \in SessionIds : AddItemQuery(t, sid)
  \/ \E t \in Threads : AddItemCommit(t)
  \/ \E t \in Threads, sid \in SessionIds : UpdateStep(t, sid)
  \/ \E t \in Threads, sid \in SessionIds : AddConversationEntry(t, sid)
  \/ \E t \in Threads, sid \in SessionIds : ThreadSaveCustomerInfo(t, sid)
  \/ CleanupOldSessions

SessionSpec == SessionInit /\ [][SessionNext]_vars

\* The chatbots and the services side by side.
AllInit == Init \/ OrderInit

AllNext == Next \/ OrderNext

AllSpec == AllInit /\ [][AllNext]_vars

\* A customer of the v2 or of the render chatbot who orders without detours:
\* every prompt is answered with a text it accepts, and at selecting_items the
\* customer names a wedding dress or asks for a quantity of 0.  The LLM is
\* down (the keyword parsers run) and the classifier's label is place_order.
OrderingUtterances(v, step) ==
  CASE step = "welcome"                -> {"place order"}
    [] step = "selecting_service_type" -> {"dry cleaning", "logistics"}
    [] step = "collecting_info"        ->
         IF v = "v2" THEN {"a@b.co"} ELSE {"a@b.co", "12 Elm Street", "555-123-4567"}
    [] step = "selecting_service"      -> {"dry cleaning"}
    [] step = "selecting_items"        ->
         (IF v = "v2" THEN {"0 shirts", "1 wedding gown"} ELSE {"0 pants", "1 wedding gown"})
           \cup {"Proceed to Checkout"}
    [] step = "adding_options"         -> {"Boxed", "No Box", "none"}
    [] step = "collecting_pickup_info" -> {"Monday", "Proceed to Checkout"}
    [] step = "collecting_logistics_info" -> {"a@b.co", "Cancel"}
    [] step = "logistics_confirmation" ->
         {"Confirm", "Edit Information", "Pay Now", "Place Another Order", "Contact Support",
          "Proceed to Checkout"}
    [] OTHER                           -> {"hello"}

ItemInit == Init /\ variant \in {"v2", "render"}

\* one turn of v2 with the classifier answering place_order, the LLM item
\* parser failing and Stripe accepting the checkout
V2ItemTurn(s, c, u) ==
  v2_generate_response(s, c, u, "place_order", LlmFailure, "ok", 1)

V2ItemChat(sid) ==
  /\ variant = "v2"
  /\ LET s == SessionOf(sid)
     IN \E u \in OrderingUtterances("v2", s.current_step) :
          Deliver(sid, V2ItemTurn(s, cart_item_counter, u), s.current_step)

RenderItemChat(sid) ==
  /\ variant = "render"
  /\ LET s == SessionOf(sid)
     IN \E u \in OrderingUtterances("render", s.current_step) :
          Deliver(sid, render_generate_response(s, cart_item_counter, u, 1), None)

ItemNext ==
  \/ \E sid \in SessionIds : V2ItemChat(sid)
  \/ \E sid \in SessionIds : RenderItemChat(sid)

ItemSpec == ItemInit /\ [][ItemNext]_vars

\* The chatbots that label every utterance with an intent classifier.
ClassifierInit == Init /\ variant \in {"v2", "single"}

ClassifierNext ==
  \/ \E sid \in SessionIds : V2Chat(sid)
  \/ \E sid \in SessionIds : SingleChat(sid)

ClassifierSpec == ClassifierInit /\ [][ClassifierNext]_vars

\* ---------------------------------------------------------------------------
\* Properties
\* ---------------------------------------------------------------------------
ChatVariants == {"v2", "single", "render"}

\* one turn of the chatbot of variant v on session s
Respond(v, s, c, u, intent, llm, stripe, now) ==
  CASE v = "v2"     -> v2_generate_response(s, c, u, intent, llm, stripe, now)
    [] v = "single" -> single_generate_response(s, c, u, intent)
    [] v = "render" -> render_generate_response(s, c, u, now)

RECURSIVE LineSum(_)
LineSum(lines) ==
  IF lines = <<>> THEN 0
  ELSE Head(lines).price * Head(lines).quantity + LineSum(Tail(lines))

LinesExact(lines) == \A i \in 1..Len(lines) : lines[i].total = lines[i].price * lines[i].quantity

\* C1: for every session, after any sequence of cart operations, the reported
\* cart total is the sum over the session's lines of unit price times quantity,
\* and every line's stored total is its own price times its own quantity.
C1_TotalCorrect ==
  /\ \A sid \in DOMAIN customer_sessions :
       /\ LinesExact(customer_sessions[sid].cart)
       /\ get_cart_total(customer_sessions[sid]) = LineSum(customer_sessions[sid].cart)
  /\ \A sid \in DbSessionIds :
       /\ LinesExact(get_cart_items(db, sid))
       /\ db_get_cart_total(db, sid) = LineSum(get_cart_items(db, sid))

\* a database cart of two lines, one of which had its quantity merged or updated
C1_Witness ==
  \E sid \in DbSessionIds :
    /\ Len(get_cart_items(db, sid)) = 2
    /\ \E i \in 1..2 : get_cart_items(db, sid)[i].quantity = 3
    /\ db_get_cart_total(db, sid) > 0

Sessions == {customer_sessions[sid] : sid \in DOMAIN customer_sessions}

Populated(customer_info, field) == customer_info[field] # None

\* the inputs of a turn other than the utterance
TurnInputs(v, s) ==
  [intent : IF v \in {"v2", "single"} THEN Intents ELSE {"unknown"},
   llm    : IF v = "v2" THEN LlmRepliesAt(s.current_step) ELSE {LlmFailure},
   stripe : IF v = "v2" THEN StripeOutcomesAt(s) ELSE {"ok"},
   now    : TimestampsAt(v, s)]

Turn(v, s, u, in) == Respond(v, s, cart_item_counter, u, in.intent, in.llm, in.stripe, in.now)

\* the session without its conversation history
Forget(s) == [s EXCEPT !.conversation_history = <<>>]

\* C7: in every reachable session the populated customer_info fields form a
\* prefix of name, email, address, phone, pickup_date, pickup_time.
C7_PrefixOrder ==
  \A s \in Sessions :
    \A i \in 2..Len(InfoFields) :
      Populated(s.customer_info, InfoFields[i]) => Populated(s.customer_info, InfoFields[i - 1])

\* a session part-way through the collection: address given, phone not yet
C7_Witness ==
  \E s \in Sessions :
    /\ s.current_step = "collecting_info"
    /\ Populated(s.customer_info, "address")
    /\ ~Populated(s.customer_info, "phone")

\* the validator a chatbot file has for a field (v2 defines none: the package's)
Accepts(v, field, value) ==
  CASE v = "v2" /\ field = "email"       -> validate_email(value)[1]
    [] v = "v2" /\ field = "address"     -> validate_address(value)[1]
    [] v = "v2" /\ field = "phone"       -> validate_phone(value)[1]
    [] v = "single" /\ field = "email"   -> single_validate_email(value)[1]
    [] v = "single" /\ field = "address" -> single_validate_address(value)[1]
    [] v = "single" /\ field = "phone"   -> single_validate_phone(value)[1]
    [] v = "render" /\ field = "email"   -> render_validate_email(value)[1]
    [] v = "render" /\ field = "address" -> render_validate_address(value)[1]
    [] v = "render" /\ field = "phone"   -> render_validate_phone(value)[1]

ValidatedFields == {"email", "address", "phone"}

\* the field handle_info_collection collects next; None when all are populated
Collecting(customer_info) ==
  IF \A i \in 1..Len(InfoFields) : Populated(customer_info, InfoFields[i]) THEN None
  ELSE InfoFields[CHOOSE i \in 1..Len(InfoFields) :
                    /\ ~Populated(customer_info, InfoFields[i])
                    /\ \A j \in 1..(i - 1) : Populated(customer_info, InfoFields[j])]

\* the keywords generate_response / handle_intent test before the step handlers
OverrideKeywords(v) ==
  CASE v = "v2"     -> CheckoutKeywords \cup {"pay now"}
    [] v = "single" -> CheckoutKeywords \cup ViewCartKeywords
    [] v = "render" -> {"view cart", "show cart", "my cart", "remove item", "delete item",
                        "update item", "change quantity", "clear cart", "empty cart",
                        "checkout", "complete order", "proceed to checkout"}

StepHandled(v, u) == ~ContainsAny(Lower(u), OverrideKeywords(v))

\* C9: email, address and phone are stored only if the validator accepts the
\* value; a rejected value re-prompts the same field with an error message and
\* leaves current_step, customer_info and the cart unchanged.
C9_StoredOnlyIfValid ==
  variant \in ChatVariants =>
    \A s \in Sessions :
      /\ \A field \in ValidatedFields :
           Populated(s.customer_info, field) => Accepts(variant, field, s.customer_info[field])
      /\ (s.current_step = "collecting_info" /\ Collecting(s.customer_info) \in ValidatedFields) =>
           \A u \in Utterances(variant, s.current_step) : \A in \in TurnInputs(variant, s) :
             (StepHandled(variant, u) /\ ~Accepts(variant, Collecting(s.customer_info), Strip(u))) =>
               LET out == Turn(variant, s, u, in)
               IN /\ out.r.type = "info_collection"
                  /\ out.r.collecting = Collecting(s.customer_info)
                  /\ out.r.error # None
                  /\ Forget(out.s) = Forget(s)

\* C10: after a checkout turn that completes an order the session is at
\* welcome with an empty cart and an empty customer_info.
C10_CleanAfterCheckout ==
  response.type = "checkout_success" =>
    \A s \in Sessions :
      /\ s.current_step = "welcome"
      /\ s.cart = <<>>
      /\ s.customer_info = EmptyInfo

CheckoutUtterances == {"Proceed to Checkout", "checkout"}

ViewCartUtterances == {"View Cart", "show cart"}

\* C4: at every step an utterance with a checkout keyword is dispatched to the
\* checkout handler and one with a view-cart keyword to the view-cart handler;
\* the step handler does not run.
C4_GlobalOverride ==
  variant \in ChatVariants =>
    \A s \in Sessions : \A in \in TurnInputs(variant, s) :
      /\ \A u \in CheckoutUtterances : Turn(variant, s, u, in).r.handler = "handle_checkout"
      /\ \A u \in ViewCartUtterances :
           Turn(variant, s, u, in).r.handler \in {"handle_view_cart", "view_cart"}

ClassifiedVariants == {"v2", "single"}

StepHandlerSteps ==
  {"collecting_info", "collecting_logistics_info", "selecting_service", "selecting_items",
   "adding_options"}

\* C5: in the chatbots with an intent classifier, at a step with a step
\* handler an utterance without override keywords gives the same response and
\* the same next session whatever the classifier returns; the classifier's
\* result changes the handler of such a turn only at welcome.
C5_IntentOnlyAtWelcome ==
  variant \in ClassifiedVariants =>
    \A s \in Sessions :
      \A u \in { x \in Utterances(variant, s.current_step) : StepHandled(variant, x) } :
        \A in \in { x \in TurnInputs(variant, s) : x.intent = "unknown" } :
          \A out1 \in {Turn(variant, s, u, in)} :
            \A intent \in Intents \ {"unknown"} :
              \A out2 \in {Turn(variant, s, u, [in EXCEPT !.intent = intent])} :
                /\ s.current_step \in StepHandlerSteps => out1 = out2
                /\ out1.r.handler # out2.r.handler => s.current_step = "welcome"

\* a greeting said at selecting_service was taken by the step's handler, which
\* asked for the service again
C5_Witness ==
  /\ variant \in ClassifiedVariants
  /\ response.handler = "handle_service_selection"
  /\ response.type = "service_selection"
  /\ \E s \in Sessions : s.current_step = "selecting_service"

\* handle_info_collection is about to read the email
AtEmail(s) ==
  /\ s.current_step = "collecting_info"
  /\ Populated(s.customer_info, "name")
  /\ ~Populated(s.customer_info, "email")

\* the check handle_info_collection of variant v makes on a candidate email
FailsEmailCheck(v, u) ==
  CASE v = "v2"     -> ~LooksLikeEmail(u)
    [] v = "single" -> ~single_validate_email(Strip(sanitize_input(u)))[1]
    [] v = "render" -> ~render_validate_email(Strip(sanitize_input(u)))[1]

EmailReprompted(s, out) ==
  /\ out.r.handler = "handle_info_collection"
  /\ out.r.type = "info_collection"
  /\ out.r.collecting = "email"
  /\ out.r.error # None
  /\ Forget(out.s) = Forget(s)

SessionPairs == DOMAIN customer_sessions \cap DOMAIN customer_sessions'

\* the fields handle_info_collection of variant v collects
CollectedFields(v) ==
  IF v = "v2" THEN {"name", "email", "address", "phone"}
  ELSE {InfoFields[i] : i \in 1..Len(InfoFields)}

AllPopulated(customer_info, fields) == \A f \in fields : Populated(customer_info, f)

\* a turn of handle_info_collection on session sid
InfoTurn(sid) ==
  /\ customer_sessions[sid].current_step = "collecting_info"
  /\ response'.handler = "handle_info_collection"

\* C8 as stated: a turn of handle_info_collection leaves collecting_info only
\* for selecting_service and only with all six fields populated.
C8_AdvanceWithSixFields ==
  [][\A sid \in SessionPairs :
       (InfoTurn(sid) /\ customer_sessions'[sid].current_step # "collecting_info") =>
         /\ customer_sessions'[sid].current_step = "selecting_service"
         /\ AllPopulated(customer_sessions'[sid].customer_info, CollectedFields("single"))]_vars

\* C8: a turn of handle_info_collection leaves collecting_info only when every
\* field that handler collects is populated after it: all six in single and
\* render, which go to selecting_service; name, email, address and phone in
\* v2, which goes to selecting_items when a service type is already chosen and
\* to selecting_service otherwise, the pickup date and time still unset.
C8_AdvanceWhenCollected ==
  [][\A sid \in SessionPairs :
       InfoTurn(sid) =>
         LET s == customer_sessions[sid]
             t == customer_sessions'[sid]
         IN IF t.current_step = "collecting_info"
            THEN \/ ~AllPopulated(t.customer_info, CollectedFields(variant))
                 \/ AllPopulated(s.customer_info, CollectedFields(variant))
            ELSE /\ AllPopulated(t.customer_info, CollectedFields(variant))
                 /\ ~AllPopulated(s.customer_info, CollectedFields(variant))
                 /\ t.current_step =
                      IF variant = "v2" /\ s.selected_service_type # None
                      THEN "selecting_items" ELSE "selecting_service"
                 /\ variant = "v2" => ~Populated(t.customer_info, "pickup_date")]_vars

\* the turn that stored the last field has just moved on to the service prompt
C8_Witness ==
  /\ response.handler = "handle_info_collection"
  /\ response.type = "service_selection"
  /\ \E s \in Sessions :
       /\ s.current_step = "selecting_service"
       /\ AllPopulated(s.customer_info, CollectedFields("single"))

\* a session choosing items with something in the cart
ReadyToCheckOut(s) == s.current_step = "selecting_items" /\ s.cart # <<>>

CartKeys(cart) == [i \in 1..Len(cart) |-> cart[i].item_key]

ItemKeys(items) == [i \in 1..Len(items) |-> items[i].key]

\* a turn of v2's handle_option_selection on session sid
OptionTurn(sid) ==
  /\ variant = "v2"
  /\ customer_sessions[sid].current_step = "adding_options"
  /\ response'.handler = "handle_option_selection"

HasCustomer(d, session_id) ==
  \E i \in 1..Len(d.customers) : d.customers[i].session_id = session_id

CustomerOf(d, session_id) ==
  d.customers[CHOOSE i \in 1..Len(d.customers) : d.customers[i].session_id = session_id]

\* the outcomes of create_order for a session in the current database, one for
\* each order number the generator can return
CreateOrderOutcomes(sid) ==
  {create_order(db, sid, order_number, now) : order_number \in OrderNumbers, now \in OrderClock}

\* the order a successful create_order stored: the last row of the table
Created(out) == out[1].orders[Len(out[1].orders)]

\* C11: create_order on a session that has customer info and a non-empty cart
\* succeeds and creates exactly one order, with status pending, the sum of the
\* cart's line totals as its total and the cart's lines as its items, and
\* leaves the session's cart empty.
C11_CreateOrderSucceeds ==
  variant = "orders" =>
    \A sid \in SessionIds :
      (HasCustomer(db, sid) /\ get_cart_items(db, sid) # <<>>) =>
        \A out \in CreateOrderOutcomes(sid) :
          /\ out[2].success
          /\ Len(out[1].orders) = Len(db.orders) + 1
          /\ SubSeq(out[1].orders, 1, Len(db.orders)) = db.orders
          /\ Created(out).status = "pending"
          /\ Created(out).total_amount = LineSum(get_cart_items(db, sid))
          /\ Created(out).items = OrderItems(get_cart_items(db, sid))
          /\ get_cart_items(out[1], sid) = <<>>

\* a checkout turn of a chatbot on a session: the reply and the session after
CheckoutTurns(s) ==
  {Turn(variant, s, u, in) : u \in CheckoutUtterances, in \in TurnInputs(variant, s)}

\* the checkout left the session as it was, the conversation history aside
Untouched(s, out) ==
  /\ out.r.handler = "handle_checkout"
  /\ out.r.type = "error"
  /\ out.s.current_step = s.current_step
  /\ out.s.cart = s.cart
  /\ out.s.customer_info = s.customer_info

\* C12 as stated: checkout on a session whose cart has no lines fails with the
\* empty-cart error whatever the customer info, creates no order and leaves
\* the session's current_step, cart and customer info unchanged.
C12_EmptyCartWhateverCustomer ==
  /\ variant \in ChatVariants =>
       \A s \in Sessions : s.cart = <<>> => \A out \in CheckoutTurns(s) : Untouched(s, out)
  /\ variant = "orders" =>
       \A sid \in SessionIds :
         get_cart_items(db, sid) = <<>> =>
           \A out \in CreateOrderOutcomes(sid) :
             out[1] = db /\ out[2] = Failure("Cart is empty")

\* C12: checkout on a session whose cart has no lines fails, creates no order
\* and leaves the session's current_step, cart and customer info unchanged.
\* The chatbots report the empty cart whatever the customer info; create_order
\* reports the empty cart when the session has a customers row and the missing
\* customer information when it has none.
C12_EmptyCartCheckoutFails ==
  /\ variant \in ChatVariants =>
       \A s \in Sessions : s.cart = <<>> => \A out \in CheckoutTurns(s) : Untouched(s, out)
  /\ variant = "orders" =>
       \A sid \in SessionIds :
         get_cart_items(db, sid) = <<>> =>
           \A out \in CreateOrderOutcomes(sid) :
             /\ out[1] = db
             /\ out[2] = IF HasCustomer(db, sid) THEN Failure("Cart is empty")
                         ELSE Failure("Customer information not found")

\* a session that checked out once and asks again: it has a customers row and
\* an order, its cart is empty, and create_order reports the empty cart
C12_Witness ==
  /\ variant = "orders"
  /\ db.orders # <<>>
  /\ HasCustomer(db, "s1")
  /\ get_cart_items(db, "s1") = <<>>
  /\ \A out \in CreateOrderOutcomes("s1") : out[2] = Failure("Cart is empty")

\* the session has no customers row, or one whose name is unset
NameUnset(d, session_id) ==
  ~HasCustomer(d, session_id) \/ CustomerOf(d, session_id).name = None

\* C13: checkout fails, creating no order and leaving the cart intact, whenever
\* the customer's name is absent, on every checkout path: the handle_checkout
\* of the chatbots and create_order of the order service.
C13_NameRequired ==
  /\ variant \in ChatVariants =>
       \A s \in Sessions :
         (s.customer_info.name = None /\ s.cart # <<>>) =>
           \A out \in CheckoutTurns(s) : out.r.type = "error" /\ out.s.cart = s.cart
  /\ variant = "orders" =>
       \A sid \in SessionIds :
         NameUnset(db, sid) =>
           \A out \in CreateOrderOutcomes(sid) : ~out[2].success /\ out[1] = db

\* every field of the session's customers row is set
CompleteCustomer(d, session_id) ==
  /\ HasCustomer(d, session_id)
  /\ \A field \in {"name", "email", "address", "phone", "pickup_date", "pickup_time"} :
       CustomerOf(d, session_id)[field] # None

\* the two additions of the scenario on a new session of the v2 chatbot
V2Shirts == v2_add_to_cart(create_customer_session, "dry_cleaning", "office_shirt", 2, <<>>)[1]

V2ShirtsAndDress == v2_add_to_cart(V2Shirts, "dry_cleaning", "wedding_dress", 1, <<"Boxed">>)[1]

\* C14: from a session with an empty cart, adding 2 Office Shirts at 5.50
\* gives the cart total 11.00, then adding 1 boxed Wedding Dress at 180.00
\* gives 191.00, and checking out with complete customer info yields a pending
\* order with total 191.00 and leaves the cart empty.
C14_Scenario ==
  /\ get_cart_total(V2Shirts) = 1100
  /\ get_cart_total(V2ShirtsAndDress) = 19100
  /\ (variant = "orders" /\ "s1" \in DOMAIN db.sessions /\ get_cart_items(db, "s1") = <<>>
      /\ CompleteCustomer(db, "s1")) =>
       \A shirts \in {add_item(db, "s1", "dry_cleaning", "office_shirt", "Office Shirt",
                               550, 2, <<>>)} :
         /\ shirts[2] = CartResult(1100)
         /\ \A dress \in {add_item(shirts[1], "s1", "dry_cleaning", "wedding_dress",
                                   "Wedding Dress", 18000, 1, <<"Boxed">>)} :
              /\ dress[2] = CartResult(19100)
              /\ \A order_number \in OrderNumbers, now \in OrderClock :
                   \A out \in {create_order(dress[1], "s1", order_number, now)} :
                     /\ out[2] = [success |-> TRUE, order_number |-> order_number,
                                  total |-> 19100]
                     /\ Created(out).total_amount = 19100
                     /\ Created(out).status = "pending"
                     /\ get_cart_items(out[1], "s1") = <<>>

\* C15: order numbers produced by the generator are pairwise distinct: every
\* number it can return within the minute of the stored orders differs from
\* the numbers it returned for them.
C15_DistinctOrderNumbers ==
  variant = "orders" =>
    \A i \in 1..Len(db.orders) : \A now \in OrderClock, random_suffix \in RandomSuffixes :
      generate_order_number(now, random_suffix) # db.orders[i].order_number

\* the statuses passed to update_order_status: the valid ones and one that is
\* not a status
StatusInputs == valid_statuses \cup {"shipped"}

\* the order may no longer be cancelled
Closed(d, order_number) ==
  /\ get_order(d, order_number) # 0
  /\ d.orders[get_order(d, order_number)].status \in {"completed", "cancelled"}

\* C16: update_order_status fails for an unknown order number and for a status
\* outside pending, processing, completed, cancelled without changing any
\* order, and an attempt to cancel a completed or cancelled order, through
\* update_order_status or cancel_order, fails and leaves its status unchanged.
C16_StatusGuards ==
  variant = "orders" =>
    \A order_number \in OrderNumbers, now \in OrderClock :
      /\ \A status \in StatusInputs :
           \A out \in {update_order_status(db, order_number, status, now)} :
             /\ (get_order(db, order_number) = 0 \/ status \notin valid_statuses) =>
                  (~out[2] /\ out[1] = db)
             /\ (status = "cancelled" /\ Closed(db, order_number)) =>
                  (~out[2] /\ out[1] = db)
      /\ Closed(db, order_number) =>
           \A out \in {cancel_order(db, order_number, now)} : ~out[2].success /\ out[1] = db

\* the order without the two fields a status change writes
Frozen(order) == [order EXCEPT !.status = None, !.updated_at = 0]

\* the customer data of an order: the customers row its customer_id names
CustomerData(d, order) ==
  {d.customers[i] : i \in {j \in 1..Len(d.customers) : d.customers[j].id = order.customer_id}}

\* the step is a successful update_order_status or cancel_order
StatusStep ==
  \E order_number \in OrderNumbers, now \in OrderClock :
    \/ \E status \in valid_statuses : db' = update_order_status(db, order_number, status, now)[1]
    \/ db' = cancel_order(db, order_number, now)[1]

\* C17: once an order is created no later operation changes its order_number,
\* items, customer data, total or pickup fields; only update_order_status and
\* cancel_order modify an order, and they change only status and updated_at.
C17_OrderImmutable ==
  [][variant = "orders" =>
       \A i \in 1..Len(db.orders) :
         /\ i <= Len(db'.orders)
         /\ Frozen(db'.orders[i]) = Frozen(db.orders[i])
         /\ CustomerData(db', db.orders[i]) = CustomerData(db, db.orders[i])
         /\ db'.orders[i] # db.orders[i] => StatusStep]_vars

\* ---------------------------------------------------------------------------
\* Properties of the cart operations
\* ---------------------------------------------------------------------------
\* the arguments tried on add to cart: keys of the catalog and keys of no
\* catalog
AddServiceTypes == {"dry_cleaning", "no_such_service"}

AddItemKeys == {"office_shirt", "wedding_dress", "no_such_item"}

AddQuantities == {1, 2}

InCatalog(catalog, service_type, item_key) ==
  /\ service_type \in DOMAIN catalog
  /\ item_key \in DOMAIN catalog[service_type].items

\* the rows of the session's cart for the item
StoredLine(d, session_id, service_type, item_key) ==
  {row \in {d.cart_items[i] : i \in 1..Len(d.cart_items)} :
     /\ row.session_id = session_id
     /\ row.service_type = service_type
     /\ row.item_key = item_key}

\* the unit price CartService.add_item charges: the price stored on the line
\* the item merges into, or the price argument for a new line
ChargedPrice(d, session_id, service_type, item_key, price) ==
  IF StoredLine(d, session_id, service_type, item_key) = {} THEN price
  ELSE (CHOOSE row \in StoredLine(d, session_id, service_type, item_key) : TRUE).price

OtherCarts(d, session_id) == SelectSeq(d.cart_items, LAMBDA row : row.session_id # session_id)

LastLine(s) == s.cart[Len(s.cart)]

\* add to cart in the render and v2 chatbots: unknown keys fail and change
\* nothing, known keys grow the total by unit price times quantity
RenderAddToCart ==
  \A s \in Sessions : \A service_type \in AddServiceTypes, item_key \in AddItemKeys,
                         quantity \in AddQuantities :
    \A out \in {render_add_to_cart(s, cart_item_counter, service_type, item_key,
                                   quantity, <<>>)} :
      IF service_type \notin DOMAIN render_load_service_catalog
      THEN out = <<s, cart_item_counter, Failure("Invalid service type")>>
      ELSE IF ~InCatalog(render_load_service_catalog, service_type, item_key)
      THEN out = <<s, cart_item_counter, Failure("Item not found")>>
      ELSE /\ out[3] = CartResult(get_cart_total(s)
                + render_load_service_catalog[service_type].items[item_key].price * quantity)
           /\ get_cart_total(out[1]) = out[3].cart_total
           /\ SubSeq(out[1].cart, 1, Len(s.cart)) = s.cart

V2AddToCart ==
  \A s \in Sessions : \A service_type \in AddServiceTypes, item_key \in AddItemKeys,
                         quantity \in AddQuantities, options \in {<<>>, <<"Boxed">>} :
    \A out \in {v2_add_to_cart(s, service_type, item_key, quantity, options)} :
      IF ~InCatalog(v2_load_service_catalog, service_type, item_key)
      THEN out = <<s, FALSE>>
      ELSE /\ out[2]
           /\ get_cart_total(out[1]) = get_cart_total(s) + LastLine(out[1]).price * quantity
           /\ SubSeq(out[1].cart, 1, Len(s.cart)) = s.cart

Without(rows, item_id) == SelectSeq(rows, LAMBDA row : row.id # item_id)

HasLine(rows, item_id) == \E i \in 1..Len(rows) : rows[i].id = item_id

NoQuantities == {0 - 1, 0}

\* C20: update_quantity with a quantity below one behaves as remove: from the
\* same state both return the same result, success or the item-not-found
\* error, and leave the same cart.
C20_UpdateBelowOneIsRemove ==
  /\ variant = "db" =>
       \A sid \in DbSessionIds, item_id \in RowIds, q \in NoQuantities :
         update_quantity(db, sid, item_id, q) = remove_item(db, sid, item_id)
  /\ variant = "render" =>
       \A s \in Sessions : \A item_id \in 1..(MaxCartItemId + 1), q \in NoQuantities :
         render_update_cart_quantity(s, item_id, q) = render_remove_from_cart(s, item_id)

\* a cart of two lines: update_quantity to zero deletes the one line and keeps
\* the other, and reports a missing line as remove does
C20_Witness ==
  /\ variant = "db"
  /\ Len(get_cart_items(db, "s1")) = 2
  /\ \E item_id \in RowIds :
       /\ HasLine(get_cart_items(db, "s1"), item_id)
       /\ update_quantity(db, "s1", item_id, 0)[2].success
       /\ Len(get_cart_items(update_quantity(db, "s1", item_id, 0)[1], "s1")) = 1
  /\ \E item_id \in RowIds :
       /\ ~HasLine(get_cart_items(db, "s1"), item_id)
       /\ update_quantity(db, "s1", item_id, 0)[2] = Failure("Item not found in cart")

NeverAdded(d, session_id) ==
  [d EXCEPT !.cart_items = SelectSeq(@, LAMBDA row : row.session_id # session_id)]

\* C22 as stated: what a session observes does not depend on what another
\* session has done: in the render and single chatbots the first item a new
\* session adds gives it the cart, with its line id, that it gets when no other
\* session has ever added an item, and in the cart service an add_item of
\* session b gives b the cart lines and the result it gets when session a has
\* never added an item
C22_Isolated ==
  /\ variant = "render" =>
       \A item_key \in AddItemKeys :
         \A here \in {render_add_to_cart(create_customer_session, cart_item_counter,
                                         "dry_cleaning", item_key, 1, <<>>)} :
           \A alone \in {render_add_to_cart(create_customer_session, 0,
                                            "dry_cleaning", item_key, 1, <<>>)} :
             here[1] = alone[1] /\ here[3] = alone[3]
  /\ variant = "single" =>
       \A item_key \in AddItemKeys :
         \A here \in {single_add_to_cart(create_customer_session, cart_item_counter,
                                         "dry_cleaning", item_key, 1, <<>>)} :
           \A alone \in {single_add_to_cart(create_customer_session, 0,
                                            "dry_cleaning", item_key, 1, <<>>)} :
             here[1] = alone[1] /\ here[3] = alone[3]
  /\ variant = "db" =>
       \A a \in DbSessionIds, b \in DbSessionIds, in \in AddInputs("db") :
         a # b =>
           \A here \in {add_item(db, b, in.service_type, in.item_key, in.name,
                                 in.price, in.quantity, in.options)} :
             \A alone \in {add_item(NeverAdded(db, a), b, in.service_type, in.item_key,
                                    in.name, in.price, in.quantity, in.options)} :
               /\ get_cart_items(here[1], b) = get_cart_items(alone[1], b)
               /\ here[2] = alone[2]

\* C23 as stated: in every interleaving of create_session calls with the same
\* id no call fails (none ends by raising) and at most one sessions row has
\* the id
C23_AtomicGetOrCreate ==
  variant = "sessions" =>
    \A t \in Threads : calls[t].op = "create_session" => calls[t].pc # "raised"

\* C24 as stated: while an add_item of session S is between its session query
\* and its commit the sessions row of S exists, and no cart_items or customers
\* row names a session that has no sessions row
C24_NoDeleteInFlight ==
  variant = "sessions" =>
    /\ \A t \in Threads :
         (InFlight(t) /\ calls[t].op = "add_item") => calls[t].session_id \in DOMAIN db.sessions
    /\ \A i \in 1..Len(db.cart_items) : db.cart_items[i].session_id \in DOMAIN db.sessions
    /\ \A i \in 1..Len(db.customers) : db.customers[i].session_id \in DOMAIN db.sessions

\* the operations that count as activity of a session
Activity == {"add_item", "update_step", "save_customer_info", "add_conversation_entry"}

\* C26 as stated: a step that deletes a sessions row deletes one on which no
\* operation has returned within the last SESSION_TIMEOUT_HOURS hours
C26_ActiveSessionKept ==
  [][\A sid \in DOMAIN db.sessions \ DOMAIN db'.sessions :
       \A t \in Threads :
         (calls[t].session_id = sid /\ calls[t].op \in Activity /\ calls[t].pc = "returned")
           => calls[t].at < clock - SESSION_TIMEOUT_HOURS]_vars

\* the cart of a session of the chatbot, empty before the session is created
CartOf(sessions, sid) == IF sid \in DOMAIN sessions THEN sessions[sid].cart ELSE <<>>

\* an operation of the cart and order services that reports a failure has
\* left every table as it was
FailedOperationChangesNothing ==
  variant \in DbVariants =>
    \A sid \in DbSessionIds :
      /\ \A in \in AddInputs(variant) :
           \A out \in {add_item(db, sid, in.service_type, in.item_key, in.name, in.price,
                                in.quantity, in.options)} :
             ~out[2].success => out[1] = db
      /\ \A item_id \in RowIds :
           /\ \A out \in {remove_item(db, sid, item_id)} : ~out[2].success => out[1] = db
           /\ \A new_quantity \in NoQuantities \cup {MaxLineQuantity} :
                \A out \in {update_quantity(db, sid, item_id, new_quantity)} :
                  ~out[2].success => out[1] = db
      /\ \A out \in {clear_cart(db, sid)} : ~out[2].success => out[1] = db
      /\ \A out \in CreateOrderOutcomes(sid) : ~out[2].success => out[1] = db

\* a turn of a chatbot that answers with an error has left the cart of every
\* session as it was
FailedTurnChangesNothing ==
  (variant \in ChatVariants /\ response'.type = "error") =>
    \A sid \in SessionIds : CartOf(customer_sessions', sid) = CartOf(customer_sessions, sid)

TranscriptOf(sessions, sid) ==
  IF sid \in DOMAIN sessions THEN sessions[sid].conversation_history ELSE <<>>

\* C27 as stated: the transcript of a session is append-only: a turn, a
\* checkout turn included, appends the user utterance and then the bot reply
\* (the utterance alone when the turn ends without a reply) and removes or
\* changes no earlier entry
C27_TranscriptAppendOnly ==
  [][(variant \in ChatVariants) =>
       \A sid \in SessionIds :
         \A before \in {TranscriptOf(customer_sessions, sid)} :
           \A after \in {TranscriptOf(customer_sessions', sid)} :
             \/ sid \notin DOMAIN customer_sessions'
             \/ after = Remember(before, "user")
             \/ after = Remember(Remember(before, "user"), "bot")]_vars

\* C28 as stated: the response of every turn is a dictionary with a message,
\* suggestions, a type and the session_id of the session the utterance was
\* sent to
C28_ResponseShape ==
  (variant \in ChatVariants /\ response # NoResponse) =>
    /\ response.type \notin {None, "exception"}
    /\ response.suggestions
    /\ response.session_id \in DOMAIN customer_sessions

\* C29 as stated: when the LLM call of the intent detection raises or answers
\* a text that cannot be parsed, and the LLM item parser fails, the turn of
\* the v2 chatbot leaves the session and returns the response of the turn
\* that runs on the label of detect_intent and the keyword item parser alone
C29_LlmFallback ==
  variant = "v2" =>
    \A sid \in SessionIds :
      \A s \in {SessionOf(sid)} :
        \A u \in Utterances("v2", s.current_step), detected \in IntentsAt("v2", s.current_step),
           llm_intent \in {LlmRaises, LlmUnparsable}, stripe \in StripeOutcomesAt(s),
           now \in TimestampsAt("v2", s) :
          v2_generate_response(s, cart_item_counter, u,
                               v2_detect_intent_with_llm(llm_intent, detected),
                               LlmFailure, stripe, now)
            = v2_generate_response(s, cart_item_counter, u, detected, LlmFailure, stripe, now)

\* Phone numbers a customer may type: well-formed US and international
\* numbers in several spellings, and texts each rule of validate_phone rejects.
PhoneInputs ==
  {"", "   ", "123", "555-123-4567", "(555) 123.4567", "+1 555 123 4567",
   "155-123-4567", "055 123 4567", "555-123-456", "555-123-456x",
   "+442071234567", "+44 20 7123 4567 890", "+1234567890123456",
   "15551234567", "555123456789012345", "++5551234567", "call me maybe"}

\* The numbers the rule describes, on the text left after the stripping.
DescribedPhone(cleaned) ==
  \/ \E national \in {cleaned} \cup (IF StartsWith(cleaned, "+1")
                                    THEN {SubSeq(cleaned, 3, Len(cleaned))} ELSE {}) :
       /\ Len(national) = 10
       /\ AllIn(national, Digits)
       /\ CharAt(national, 1) \notin {"0", "1"}
  \/ /\ StartsWith(cleaned, "+")
     /\ Len(cleaned) - 1 \in 10..15
     /\ AllIn(Tail(cleaned), Digits)

PhoneRule(phone, result) ==
  LET cleaned == RemoveChars(phone, PhoneFormatting) IN
  /\ result[1] <=> DescribedPhone(cleaned)
  /\ result[1] => result[2] = ""
  /\ ~result[1] => result[2] # ""
  /\ (~result[1] /\ phone # "" /\ Len(cleaned) < 10) => result[2] = "Phone number is too short. Please include area code."

\* The validate_phone a variant runs: the single-file chatbots define their
\* own, everything else imports the package's.
validate_phone_of(v, phone) ==
  CASE v = "single" -> single_validate_phone(phone)
    [] v = "render" -> render_validate_phone(phone)
    [] OTHER        -> validate_phone(phone)

\* C30 as stated: validate_phone, in the package and in each single-file
\* chatbot, answers (True, "") exactly for the texts that, stripped of
\* whitespace, hyphens, parentheses and dots, are a 10-digit US number
\* starting with 2-9, optionally after +1, or a + followed by 10 to 15
\* digits; it answers every other text with False and a diagnostic, which is
\* the too-short one when fewer than 10 characters of a non-empty text remain
C30_ValidatePhone ==
  \A phone \in PhoneInputs : PhoneRule(phone, validate_phone_of(variant, phone))

\* the cart lines of items that have no options in the v2 catalog
ReadyLines(cart) ==
  SelectSeq(cart, LAMBDA line :
    v2_load_service_catalog[line.service_type].items[line.item_key].options = <<>>)

\* C31: in the v2 chatbot no turn that ends at adding_options (the selection
\* turn that queues the items, and every option turn that leaves the queue
\* undrained) adds an item without options to the cart; the deferred ready
\* items are added, in their order, by the option turn that finds the queue
\* empty, which is the turn that returns current_step to selecting_items, and
\* by no other turn taken from adding_options
C31_ReadyItemsDeferred ==
  [][(variant = "v2") =>
       \A sid \in SessionPairs :
         \A s \in {customer_sessions[sid]} :
           \A t \in {customer_sessions'[sid]} :
             /\ (t.current_step = "adding_options" /\ s.current_step \in {"selecting_items", "adding_options"}) =>
                  ReadyLines(t.cart) = ReadyLines(s.cart)
             /\ (s.current_step = "adding_options" /\ s.items_ready_to_add # <<>>) =>
                  IF /\ response'.handler = "handle_option_selection"
                     /\ t.current_step = "selecting_items"
                  THEN /\ s.items_needing_options = <<>>
                       /\ CartKeys(ReadyLines(t.cart))
                            = CartKeys(ReadyLines(s.cart)) \o ItemKeys(s.items_ready_to_add)
                       /\ \A i \in 1..Len(s.items_ready_to_add) :
                            t.cart[Len(s.cart) + 1 + i].quantity = s.items_ready_to_add[i].quantity
                  ELSE Len(ReadyLines(t.cart)) <= Len(ReadyLines(s.cart))]_vars

\* the pants of a batch have been resolved and added while the wedding dress
\* is still to be resolved and the shirts of the batch wait
C31_Witness ==
  /\ variant = "v2"
  /\ response.handler = "handle_option_selection"
  /\ \E s \in Sessions :
       /\ s.current_step = "adding_options"
       /\ s.items_ready_to_add # <<>>
       /\ s.cart # <<>>
       /\ ReadyLines(s.cart) = <<>>

\* the parsed items of an utterance that wait for their options, in the order
\* of parsing
Queued(s, u, llm) ==
  SelectSeq(v2_parse_item_request_with_llm(u, s.selected_service, llm),
            LAMBDA item_info :
              v2_load_service_catalog[s.selected_service].items[item_info.key].options # <<>>)

\* C32: the v2 chatbot resolves the items that need options one at a time in
\* the order of parsing: the selection turn makes the first of them the
\* pending item and queues the others in their order; an option turn that
\* accepts a selection adds the pending item and makes the head of the queue
\* the pending item (none when the queue is empty); an option turn that adds
\* nothing (the re-prompt for an agbada answer without the starch level or
\* the hang / fold instruction) leaves pending item, queue and cart as they were
C32_FifoQueue ==
  [][(variant = "v2") =>
       \A sid \in SessionPairs :
         \A s \in {customer_sessions[sid]} :
           \A t \in {customer_sessions'[sid]} :
             /\ (s.current_step = "selecting_items" /\ t.current_step = "adding_options") =>
                  \E u \in Utterances("v2", "selecting_items"), llm \in LlmReplies :
                    <<t.pending_item>> \o t.items_needing_options = Queued(s, u, llm)
             /\ OptionTurn(sid) =>
                  IF t.cart # s.cart
                  THEN /\ Len(t.cart) > Len(s.cart)
                       /\ SubSeq(t.cart, 1, Len(s.cart)) = s.cart
                       /\ t.cart[Len(s.cart) + 1].item_key = s.pending_item.key
                       /\ t.cart[Len(s.cart) + 1].quantity = s.pending_item.quantity
                       /\ IF s.items_needing_options = <<>>
                          THEN t.pending_item = NoItem /\ t.items_needing_options = <<>>
                          ELSE /\ t.pending_item = Head(s.items_needing_options)
                               /\ t.items_needing_options = Tail(s.items_needing_options)
                  ELSE Forget(t) = Forget(s)]_vars

\* the agbada of a batch of agbada, pants and wedding dress was answered with
\* the starch level alone: the re-prompt left it pending with the others queued
C32_Witness ==
  /\ variant = "v2"
  /\ response.handler = "handle_option_selection"
  /\ response.type = "option_selection"
  /\ \E s \in Sessions :
       /\ s.current_step = "adding_options"
       /\ s.pending_item.key = "agbada"
       /\ ItemKeys(s.items_needing_options) = <<"pants", "wedding_dress">>

\* C33 as stated: generate_response calls the intent classifier only in a
\* turn whose session is at the free step welcome; in a turn taken at a
\* mid-flow step (collecting_info, selecting_service, selecting_items,
\* adding_options, ...) the utterance is not passed to the classifier
C33_ClassifierOnlyWhenFree ==
  (variant \in ChatVariants) => classified \in {None, "welcome"}

\* the option labels of the wedding dress in the catalogs of the three files
BoxedLabels == {"Boxed", "Box"}

NoBoxLabels == {"No Box", "No box"}

Chosen(options, labels) == \E i \in 1..Len(options) : options[i] \in labels

\* C34 as stated: every wedding dress line of a cart carries the boxing option
\* chosen for it and the unit price of that option, the boxed price (180.00)
\* for Boxed and the not-boxed price (150.00) for No Box, and its total is
\* that unit price times its quantity
C34_WeddingDressPrice ==
  (variant \in ChatVariants) =>
    \A s \in Sessions :
      \A i \in 1..Len(s.cart) :
        \A line \in {s.cart[i]} :
          line.item_key = "wedding_dress" =>
            /\ line.total = line.price * line.quantity
            /\ \/ Chosen(line.options, BoxedLabels) /\ line.price = 18000
               \/ /\ Chosen(line.options, NoBoxLabels)
                  /\ ~Chosen(line.options, BoxedLabels)
                  /\ line.price = WeddingDressNoBoxPrice

\* C35 as stated: every cart line, in the carts of the chatbot sessions and
\* in the cart_items table, has a quantity of at least 1
C35_QuantityAtLeastOne ==
  /\ \A s \in Sessions : \A i \in 1..Len(s.cart) : s.cart[i].quantity >= 1
  /\ \A i \in 1..Len(db.cart_items) : db.cart_items[i].quantity >= 1

\* C36 as stated: CartService.add_item merges an add into an existing line of
\* the session only when service type, item key and options are all the same
\* as the line's; an add of the same item with other options leaves the line
\* (quantity, options, price, total) as it was
C36_MergeIdenticalOptions ==
  variant = "db" =>
    \A sid \in DOMAIN db.sessions :
      \A in \in AddInputs("db") :
        \A after \in {add_item(db, sid, in.service_type, in.item_key, in.name, in.price,
                               in.quantity, in.options)[1]} :
          \A i \in 1..Len(db.cart_items) :
            \A row \in {db.cart_items[i]} :
              (/\ row.session_id = sid
               /\ row.service_type = in.service_type
               /\ row.item_key = in.item_key
               /\ row.options # in.options) => after.cart_items[i] = row

\* C37 as stated: in every session of the v2 chatbot pending_item is set
\* exactly when current_step is adding_options, and outside adding_options no
\* queued option item and no deferred ready item is left in the session
C37_PendingIffAddingOptions ==
  variant = "v2" =>
    \A s \in Sessions :
      /\ (s.current_step = "adding_options") <=> (s.pending_item # NoItem)
      /\ s.current_step # "adding_options" =>
           s.items_needing_options = <<>> /\ s.items_ready_to_add = <<>>

\* the sessions (with the item counter) one more utterance can produce from x
\* in the ordering conversation of v2
AfterOneUtterance(x) ==
  {[s |-> out.s, c |-> out.c] :
     out \in {o \in {V2ItemTurn(x.s, x.c, u) : u \in OrderingUtterances("v2", x.s.current_step)} :
                WithinBounds(o)}}

\* some sequence of utterances takes a session of frontier to welcome; seen
\* are the sessions already known not to be at welcome
RECURSIVE ReturnsToWelcome(_, _)
ReturnsToWelcome(seen, frontier) ==
  IF \E x \in frontier : x.s.current_step = "welcome" THEN TRUE
  ELSE IF frontier = {} THEN FALSE
  ELSE LET known == seen \cup frontier
       IN ReturnsToWelcome(known, (UNION {AfterOneUtterance(x) : x \in frontier}) \ known)

\* C38: no dialogue step is a dead end: from every reachable session of v2
\* some sequence of user utterances brings current_step back to welcome, also
\* after a logistics request was confirmed and after a payment link was issued.
C38_NoDeadEnd ==
  variant = "v2" =>
    \A s \in Sessions : ReturnsToWelcome({}, {[s |-> s, c |-> cart_item_counter]})

\* C39: every turn of the render chatbot completes with a response: the
\* handler generate_response selects returns a dictionary and the turn does
\* not raise, also at collecting_info with every customer-info field populated.
C39_TurnCompletes ==
  variant = "render" => response.type # "exception"

\* C40: for one cart of the v2 chatbot a payment checkout is created at most
\* once: when a session holds the order id of an issued payment link, no later
\* turn that leaves its cart unchanged answers with another payment link.
C40_CheckoutOnce ==
  [][(variant = "v2") =>
       \A sid \in DOMAIN customer_sessions :
         (/\ customer_sessions[sid].order_id # None
          /\ sid \in DOMAIN customer_sessions'
          /\ customer_sessions'[sid].cart = customer_sessions[sid].cart)
           => ~(/\ response'.handler = "create_stripe_checkout"
                /\ response'.type = "payment_ready"
                /\ response'.session_id = sid)]_vars

====
